---- MODULE Spec2Model ----
(***************************************************************************)
(* A model of the gurag API core: the self-learning trigger and its        *)
(* running flag (routers/learning.py), the semantic cache                  *)
(* (services/cache/semantic_cache.py) over the query_cache table           *)
(* (models/db_models.py), the chat endpoint (routers/chat.py) and the      *)
(* maintenance phases (services/learning/self_learner.py).                 *)
(*                                                                         *)
(* Every call that reaches the database is modelled one awaited statement  *)
(* at a time: a request in its session (tx), a maintenance call in its own *)
(* (job), and the steps of the sessions interleave.  Thirteen              *)
(* specifications share the variables.                                     *)
(*   Spec      the cache calls of the requests, in either configuration,   *)
(*             with the Embedding Service answering or failing, and the    *)
(*             clock;                                                      *)
(*   SpecTx    the cache calls of concurrent requests in the default       *)
(*             configuration;                                              *)
(*   SpecMaint pre-warm and cleanup, called by their endpoints with the    *)
(*             arguments of the caller, beside the chat requests that log; *)
(*   SpecRatings improve and extend-TTL, called by their endpoints, beside *)
(*             the requests that log and the requests that rate;           *)
(*   SpecMaintTx a maintenance call beside the cache calls of concurrent   *)
(*             requests;                                                   *)
(*   SpecCycle the learning cycle, phase after phase in one session;       *)
(*   SpecChat  the chat requests of concurrent sessions;                   *)
(*   SpecLearn the trigger endpoint and its background tasks;              *)
(*   SpecHash  the query digest, as a function of the query text;          *)
(*   SpecRouter the query router, as a function of the query and of what   *)
(*             the Generation Service replies;                             *)
(*   SpecMerge the merging of the citations of the two sources;            *)
(*   SpecFeedback the feedback endpoint over identified analytics rows;    *)
(*   SpecPipeline the answer pipelines of a live miss and of pre-warm, on  *)
(*             the same query and the same replies of the collaborators.   *)
(***************************************************************************)
EXTENDS Integers, Sequences, FiniteSets, Bags, TLC

VARIABLES
    is_running,     \* _learning_status["is_running"]
    last_run,       \* _learning_status["last_run"]
    last_result,    \* _learning_status["last_result"]
    req,            \* per trigger request: its reply and its background task
    semantic_cache_enabled, \* settings.semantic_cache_enabled
    table,          \* the committed rows of query_cache
    nextId,         \* the next fresh row id (uuid4 in the code)
    now,            \* the clock, in hours
    ticks,          \* how many times the clock advanced
    ret,            \* the call that returned in the last step
    tx,             \* per session: the request in flight and its transaction
    served,         \* how many requests have begun
    job,            \* the maintenance call in flight and its transaction
    analytics,      \* the committed rows of query_analytics, as a bag
    calls,          \* how many endpoint calls were made
    arg,            \* the arguments of the last call of a pure function
    val             \* what that call returned

learnVars == <<is_running, last_run, last_result, req>>
cacheVars == <<semantic_cache_enabled, table, nextId, now, ticks, ret>>
txVars == <<tx, served, job>>
otherVars == <<analytics, calls, arg, val>>
vars == <<is_running, last_run, last_result, req,
          semantic_cache_enabled, table, nextId, now, ticks, ret, tx, served,
          job, analytics, calls, arg, val>>

(***************************************************************************)
(* Bounds of the model.                                                    *)
(***************************************************************************)
MaxTriggers == 3
MaxIds == 3
MaxTicks == 1
MaxSessions == 2
MaxRequests == 3
MaxLen == 4
MaxRecords == 3
MaxCycles == 1
MaxRagSources == 5
MaxMcpSources == 6
MaxChats == 2
MaxJobs == 2

(***************************************************************************)
(* The self-learning trigger: routers/learning.py.                         *)
(*                                                                         *)
(* req[i].st is the position of trigger request i and of the background    *)
(* task it adds:                                                           *)
(*   "new"        the request has not arrived;                             *)
(*   "conflict"   answered 409, nothing scheduled;                         *)
(*   "scheduled"  answered "started", run_learning_task added to the       *)
(*                background tasks, not yet begun;                         *)
(*   a phase      run_learning_task is inside run_learning_cycle, waiting  *)
(*                on that phase;                                           *)
(*   "done"       run_learning_task has returned.                          *)
(***************************************************************************)
Triggers == 1..MaxTriggers

Phases == <<"pre_warming", "response_improvement", "cache_cleanup">>

PhaseSet == {Phases[k] : k \in 1..Len(Phases)}

NoResult == [kind |-> "none", of |-> 0]

LearningStatusInit ==
    /\ is_running = FALSE
    /\ last_run = 0
    /\ last_result = NoResult

ReqInit == req = [i \in Triggers |-> [st |-> "new", reply |-> "none"]]

\* A background task that has begun and has not returned.
Active(i) == req[i].st \in PhaseSet

\* lines 66-92: what the endpoint answers and whether it adds the task.
trigger_learning_cycle_broken(flag) ==
    [st |-> "scheduled", reply |-> "started"]

trigger_learning_cycle(flag) ==
    IF flag
    THEN [st |-> "conflict", reply |-> "409"]
    ELSE [st |-> "scheduled", reply |-> "started"]

\* The handler body has no await: the check and add_task are one step.  The
\* flag is not written here; run_learning_task writes it when it begins.
Trigger(i) ==
    /\ req[i].st = "new"
    /\ req' = [req EXCEPT ![i] = trigger_learning_cycle(is_running)]
    /\ UNCHANGED <<is_running, last_run, last_result>>

\* lines 74-78: the task begins, sets the flag and awaits the cycle.
TaskStart(i) ==
    /\ req[i].st = "scheduled"
    /\ is_running' = TRUE
    /\ req' = [req EXCEPT ![i].st = Phases[1]]
    /\ UNCHANGED <<last_run, last_result>>

\* self_learner.py lines 45-51: one awaited phase returns, the next begins.
PhaseReturns(i) ==
    /\ \E k \in 1..(Len(Phases) - 1) :
          /\ req[i].st = Phases[k]
          /\ req' = [req EXCEPT ![i].st = Phases[k + 1]]
    /\ UNCHANGED <<is_running, last_run, last_result>>

\* lines 78-84: how run_learning_task leaves the status when the cycle has
\* returned (raised = FALSE) or raised (raised = TRUE).
run_learning_task_end_stuck(i, raised) ==
    IF raised
    THEN [is_running |-> is_running, last_run |-> last_run,
          last_result |-> [kind |-> "error", of |-> i]]
    ELSE [is_running |-> FALSE, last_run |-> i,
          last_result |-> [kind |-> "result", of |-> i]]

run_learning_task_end(i, raised) ==
    IF raised
    THEN [is_running |-> FALSE, last_run |-> last_run,
          last_result |-> [kind |-> "error", of |-> i]]
    ELSE [is_running |-> FALSE, last_run |-> i,
          last_result |-> [kind |-> "result", of |-> i]]

TaskEnd(i, raised) ==
    LET e == run_learning_task_end(i, raised) IN
    /\ is_running' = e.is_running
    /\ last_run' = e.last_run
    /\ last_result' = e.last_result
    /\ req' = [req EXCEPT ![i].st = "done"]

\* The last phase returns: the cycle's result is stored and the flag cleared.
CycleReturns(i) ==
    /\ req[i].st = Phases[Len(Phases)]
    /\ TaskEnd(i, FALSE)

\* A phase raises (a database error outside the per-item try blocks): the
\* except and finally clauses run.
CycleRaises(i) ==
    /\ req[i].st \in PhaseSet
    /\ TaskEnd(i, TRUE)

(***************************************************************************)
(* Query texts and their digest: semantic_cache.py, generate_query_hash.   *)
(* A query is a sequence of characters; sha256(...)[:32] is taken to be    *)
(* injective and is modelled by tagging the normalized text.               *)
(***************************************************************************)
Whitespace == {" ", "\t"}

\* str.lower(), one character at a time.
Lower_identity(c) == c

Lower(c) == IF c = "A" THEN "a" ELSE IF c = "B" THEN "b" ELSE c

LowerStr(s) == [k \in 1..Len(s) |-> Lower(s[k])]

\* str.strip(): without the leading and the trailing whitespace.
RECURSIVE Strip(_)
Strip(s) ==
    IF s = <<>> THEN s
    ELSE IF Head(s) \in Whitespace THEN Strip(Tail(s))
    ELSE IF s[Len(s)] \in Whitespace THEN Strip(SubSeq(s, 1, Len(s) - 1))
    ELSE s

\* str.split(): the maximal runs of non-whitespace characters.
RECURSIVE SplitFrom(_, _, _, _)
SplitFrom(s, k, cur, acc) ==
    IF k > Len(s)
    THEN (IF cur = <<>> THEN acc ELSE Append(acc, cur))
    ELSE IF s[k] \in Whitespace
         THEN SplitFrom(s, k + 1, <<>>,
                        IF cur = <<>> THEN acc ELSE Append(acc, cur))
         ELSE SplitFrom(s, k + 1, Append(cur, s[k]), acc)

Split(s) == SplitFrom(s, 1, <<>>, <<>>)

\* " ".join(words)
RECURSIVE JoinFrom(_, _)
JoinFrom(words, k) ==
    IF k > Len(words) THEN <<>>
    ELSE IF k = Len(words) THEN words[k]
    ELSE words[k] \o <<" ">> \o JoinFrom(words, k + 1)

Join(words) == JoinFrom(words, 1)

\* line 27: " ".join(query.lower().strip().split())
Normalize(q) == Join(Split(Strip(LowerStr(q))))

generate_query_hash(q) == <<"sha256", Normalize(q)>>

\* The query texts the requests draw from: two spellings of one query and a
\* different query.
Queries == { <<"a">>, <<" ", "A">>, <<"b">> }

\* The answers a store is given: a response and its citation list (none, or
\* one citation).
Answers ==
    { [response |-> "r1", sources |-> <<>>],
      [response |-> "r2", sources |-> <<"s1">>] }

(***************************************************************************)
(* The Embedding Service and cosine similarity.  Vectors have two          *)
(* non-negative integer coordinates, not all zero, so that every dot       *)
(* product is >= 0 and similarities compare by their squares.              *)
(***************************************************************************)
Vectors == { <<1, 0>>, <<0, 1>>, <<5, 2>> }

\* None: no embedding.
NoEmbedding == <<>>

\* The vector the Embedding Service computes for a text.  The two spellings
\* of the first query are not similar to each other (0.0); the other query
\* is similar to the first spelling (0.928) and not to the second (0.371).
Embed(q) ==
    IF q = <<"a">> THEN <<1, 0>>
    ELSE IF q = <<" ", "A">> THEN <<0, 1>>
    ELSE <<5, 2>>

\* get_embedding(q) either returns the vector or raises.
EmbeddingReplies(q) == { Embed(q), <<"raise">> }

\* semantic_cache.py lines 31-42: the exception is swallowed, None returned.
get_query_embedding_propagates(reply) == reply

get_query_embedding(reply) ==
    IF reply = <<"raise">> THEN NoEmbedding ELSE reply

Dot(a, b) == a[1] * b[1] + a[2] * b[2]

Norm2(a) == Dot(a, a)

\* config.py line 21: semantic_cache_threshold = 0.92 = ThresholdNum / ThresholdDen
ThresholdNum == 92
ThresholdDen == 100

\* 1 - (a <=> b) >= threshold, with cosine similarity Dot / sqrt(Norm2 * Norm2)
SimilarityAtLeastThreshold(a, b) ==
    (Dot(a, b) * ThresholdDen) * (Dot(a, b) * ThresholdDen)
        >= ThresholdNum * ThresholdNum * Norm2(a) * Norm2(b)

\* a is strictly nearer to e than b is (smaller cosine distance).
Nearer(a, b, e) ==
    Dot(a, e) * Dot(a, e) * Norm2(b) > Dot(b, e) * Dot(b, e) * Norm2(a)

(***************************************************************************)
(* The query_cache table: db_models.py, QueryCache.                        *)
(***************************************************************************)
\* config.py line 20
cache_ttl_hours == 24

\* The sources column: json.dumps(sources) if sources else None
SourcesColumn(sources) ==
    IF sources = <<>> THEN <<"NULL">> ELSE <<"json", sources>>

\* json.loads(row.sources) if row.sources else []
SourcesOf_null_as_is(column) ==
    IF column = <<"NULL">> THEN column ELSE column[2]

SourcesOf(column) ==
    IF column = <<"NULL">> THEN <<>> ELSE column[2]

\* The result of a select that found no row (None).
NoRow ==
    [id |-> 0, query_hash |-> <<"sha256", <<>>>>, query_text |-> <<>>,
     query_embedding |-> NoEmbedding, response |-> "",
     sources |-> <<"NULL">>, created_at |-> 0, expires_at |-> 0,
     hit_count |-> 0]

\* select(QueryCache).where(QueryCache.query_hash == query_hash)
SelectByHash(rows, h) == {r \in rows : r.query_hash = h}

\* scalar_one_or_none(); more than one row raises MultipleResultsFound,
\* which the callers test with Cardinality before they use the row.
ScalarOneOrNone(S) ==
    IF Cardinality(S) = 1 THEN CHOOSE r \in S : TRUE ELSE NoRow

\* db_models.py line 75: query_hash is unique.  The insert of row r into
\* rows violates the unique index.
UniqueViolation_unchecked(rows, r) == FALSE

UniqueViolation(rows, r) ==
    \E o \in rows : o.query_hash = r.query_hash

(***************************************************************************)
(* The cache operations: semantic_cache.py.  Each operator computes what   *)
(* the call does on the rows its session sees.                             *)
(***************************************************************************)
\* What a lookup returns: (response, sources) or None, or an exception.
\* id names the row a hit came from; via names the path that found it.
Miss ==
    [status |-> "miss", via |-> "none", id |-> 0, response |-> "",
     sources |-> <<>>]

Raised ==
    [status |-> "raise", via |-> "none", id |-> 0, response |-> "",
     sources |-> <<>>]

Hit(r, path) ==
    [status |-> "hit", via |-> path, id |-> r.id, response |-> r.response,
     sources |-> SourcesOf(r.sources)]

\* exact_match.get_cached_response: the unexpired entry with the query's
\* digest, if any; the entry is not changed.
exact_match_get_cached_response(rows, q, t) ==
    LET S == {r \in SelectByHash(rows, generate_query_hash(q)) :
                 r.expires_at > t}
    IN IF S = {} THEN Miss ELSE Hit(CHOOSE r \in S : TRUE, "exact")

\* lines 78-97: what fetchone() may return for the similarity search: the
\* nearest of the unexpired rows that have an embedding (any of them on a
\* tie), or no row.
SemanticSearch_any_expiry(rows, e, t) ==
    LET cand == {r \in rows : r.query_embedding # NoEmbedding}
    IN IF cand = {} THEN {NoRow}
       ELSE {r \in cand : \A o \in cand :
                ~Nearer(o.query_embedding, r.query_embedding, e)}

SemanticSearch(rows, e, t) ==
    LET cand == {r \in rows : /\ r.query_embedding # NoEmbedding
                              /\ r.expires_at > t}
    IN IF cand = {} THEN {NoRow}
       ELSE {r \in cand : \A o \in cand :
                ~Nearer(o.query_embedding, r.query_embedding, e)}

\* The rows fetchone() may return in a lookup of q whose embedding call
\* answered reply.
SearchRows(rows, enabled, reply, t) ==
    LET e == get_query_embedding(reply)
    IN IF enabled /\ e \in Vectors THEN SemanticSearch(rows, e, t)
       ELSE {NoRow}

\* line 99: row and row.similarity >= threshold
SemanticHit_ignores_threshold(row, e) ==
    row.id # 0

SemanticHit(row, e) ==
    /\ row.id # 0
    /\ SimilarityAtLeastThreshold(row.query_embedding, e)

\* lines 60-113: where get_cached_response goes once the embedding call has
\* answered reply and, on the semantic path, the similarity search has
\* returned row:
\*   "raise"  the exception of the embedding call propagates;
\*   "hit"    the row is a semantic hit: the hit-count UPDATE, then the
\*            return of the row's answer;
\*   "exact"  the exact-match lookup, which is the whole lookup when
\*            semantic matching is off or the query has no embedding, and
\*            the fallback when the similarity search has no hit;
\*   "miss"   None is returned without an exact-match lookup.
get_cached_response_no_fallback(enabled, reply, row) ==
    LET e == get_query_embedding(reply)
    IN IF ~enabled THEN "exact"
       ELSE IF e = <<"raise">> THEN "raise"
       ELSE IF e = NoEmbedding THEN "exact"
       ELSE IF SemanticHit(row, e) THEN "hit"
       ELSE "miss"

get_cached_response(enabled, reply, row) ==
    LET e == get_query_embedding(reply)
    IN IF ~enabled THEN "exact"
       ELSE IF e = <<"raise">> THEN "raise"
       ELSE IF e = NoEmbedding THEN "exact"
       ELSE IF SemanticHit(row, e) THEN "hit"
       ELSE "exact"

\* lines 102-105: UPDATE query_cache SET hit_count = hit_count + 1 WHERE id = :id
\* cur is the row as the UPDATE statement finds it, seen the row as the
\* similarity search returned it.
hit_count_plus_one_of_seen(cur, seen) ==
    [cur EXCEPT !.hit_count = seen.hit_count + 1]

hit_count_plus_one_twice(cur, seen) ==
    [cur EXCEPT !.hit_count = cur.hit_count + 2]

hit_count_plus_one(cur, seen) ==
    [cur EXCEPT !.hit_count = cur.hit_count + 1]

\* lines 133-164: the row save_to_cache writes, given the row its select
\* found (existing, NoRow if none), the embedding e (None if it failed) and
\* the id a new row would get.
save_to_cache_row_keeps_hits(existing, q, response, sources, e, t, newid) ==
    IF existing.id # 0
    THEN [existing EXCEPT
            !.response = response,
            !.sources = SourcesColumn(sources),
            !.expires_at = t + cache_ttl_hours,
            !.query_embedding = IF e # NoEmbedding THEN e ELSE @]
    ELSE [id |-> newid, query_hash |-> generate_query_hash(q),
          query_text |-> q, query_embedding |-> e, response |-> response,
          sources |-> SourcesColumn(sources), created_at |-> t,
          expires_at |-> t + cache_ttl_hours, hit_count |-> 0]

save_to_cache_row(existing, q, response, sources, e, t, newid) ==
    IF existing.id # 0
    THEN [existing EXCEPT
            !.response = response,
            !.sources = SourcesColumn(sources),
            !.expires_at = t + cache_ttl_hours,
            !.hit_count = 0,
            !.query_embedding = IF e # NoEmbedding THEN e ELSE @]
    ELSE [id |-> newid, query_hash |-> generate_query_hash(q),
          query_text |-> q, query_embedding |-> e, response |-> response,
          sources |-> SourcesColumn(sources), created_at |-> t,
          expires_at |-> t + cache_ttl_hours, hit_count |-> 0]

\* lines 172-185: the select of invalidate_cache on the rows the session
\* sees: what the call returns and the entry it deletes (NoRow if none).
invalidate_cache_by_text(rows, q) ==
    LET S == {r \in rows : r.query_text = q}
        cache_entry == ScalarOneOrNone(S)
    IN IF Cardinality(S) > 1
       THEN [status |-> "raise", cache_entry |-> NoRow]
       ELSE IF cache_entry.id # 0
       THEN [status |-> "true", cache_entry |-> cache_entry]
       ELSE [status |-> "false", cache_entry |-> NoRow]

invalidate_cache(rows, q) ==
    LET S == SelectByHash(rows, generate_query_hash(q))
        cache_entry == ScalarOneOrNone(S)
    IN IF Cardinality(S) > 1
       THEN [status |-> "raise", cache_entry |-> NoRow]
       ELSE IF cache_entry.id # 0
       THEN [status |-> "true", cache_entry |-> cache_entry]
       ELSE [status |-> "false", cache_entry |-> NoRow]

(***************************************************************************)
(* The analytics log: services/analytics/logger.py.  A row of              *)
(* query_analytics is [query_text, feedback, created_at], feedback 0 for   *)
(* None; rows differ by their id only, so the table is a bag of rows.      *)
(***************************************************************************)
Day == 24

OneRow(r) == SetToBag({r})

\* lines 15-39: log_query adds a row without feedback.
log_query_unlogged(records, q, source_type, t) == records

log_query(records, q, source_type, t) ==
    records (+) OneRow([query_text |-> q, source_type |-> source_type,
                        feedback |-> 0, created_at |-> t])

\* lines 42-57: record_feedback on a row r that exists.
record_feedback(records, r, fb) ==
    (records (-) OneRow(r)) (+) OneRow([r EXCEPT !.feedback = fb])

\* How many rows of the bag are in the set S of rows.
RECURSIVE CountIn(_, _)
CountIn(records, S) ==
    IF S = {} THEN 0
    ELSE LET r == CHOOSE x \in S : TRUE
         IN CopiesIn(r, records) + CountIn(records, S \ {r})

\* WHERE created_at >= since
Recent(records, since) ==
    {r \in BagToSet(records) : r.created_at >= since}

\* GROUP BY query_text: the texts and, per text, count(id) and the sums of
\* the feedback cases.
TextsOf(S) == {r.query_text : r \in S}

CountOf(records, S, q) ==
    CountIn(records, {r \in S : r.query_text = q})

FeedbackOf(records, S, q, fb) ==
    CountIn(records, {r \in S : r.query_text = q /\ r.feedback = fb})

\* LIMIT n, list[:n]
Limit(list, n) ==
    SubSeq(list, 1, IF n < Len(list) THEN n ELSE Len(list))
(***************************************************************************)
(* The initial state.                                                      *)
(***************************************************************************)
\* No analytics row yet, no function called, no call returned before.
NoCall == <<>>

\* ret: the call that returned in the last step, its arguments and what it
\* returned; NoRet when the last step returned from no call.
\*   q         the call's query, embedded whether its embedding call
\*             answered;
\*   alone     no step of another session or of the maintenance call fell
\*             between the first statement of the call and its return;
\*   after     for an invalidate, the call that had returned alone in the
\*             step before it began;
\*   request, query_type, cached   of a chat request: its text, the
\*             router's result and whether the cache answered.
\* A feedback request returns its analytics_id, its feedback and the status
\* of the response.
NoRet ==
    [op |-> "none", q |-> <<>>, embedded |-> FALSE, status |-> "none",
     via |-> "none", id |-> 0, response |-> "", sources |-> <<>>,
     alone |-> FALSE, after |-> NoCall, request |-> <<>>,
     query_type |-> "none", cached |-> FALSE]

Sessions == 1..MaxSessions

\* tx[s]: the request session s is serving.
\*   pc      "idle", or the statement the request sends next: "exact" (the
\*           exact-match select of a lookup), "save" (the select of
\*           save_to_cache in a chat request), "flush" (the write the
\*           request has prepared), "log" (the insert of the analytics
\*           row of a chat request), "commit"; "done" when the request has
\*           returned;
\*   op      "store", "lookup", "invalidate", "chat" or "feedback";
\*   q, h    the request's query and its digest;
\*   seen    the row the request's select returned (NoRow if none);
\*   write   the statement the flush sends: "insert", "update",
\*           "increment", "delete", "feedback" (the UPDATE of the feedback
\*           of an analytics row) or "none";
\*   row     the row as the statement leaves it;
\*   query_embedding  the vector save_to_cache assigned to the row it
\*           loaded (NoEmbedding if it assigned none);
\*   record  the analytics rows the request has inserted;
\*   loaded  the analytics rows the select of a feedback request returned,
\*           feedback the value the request submits, id the analytics_id
\*           it names;
\*   the other fields are those of ret.
\* An answered request keeps op, h, status and via only.
NoTx ==
    [pc |-> "idle", op |-> "none", q |-> <<>>, h |-> NoRow.query_hash,
     embedded |-> FALSE, status |-> "none", via |-> "none", id |-> 0,
     response |-> "", sources |-> <<>>, write |-> "none", seen |-> NoRow,
     row |-> NoRow, query_embedding |-> NoEmbedding, record |-> EmptyBag,
     loaded |-> EmptyBag,
     feedback |-> 0, alone |-> FALSE, after |-> NoCall, request |-> <<>>,
     query_type |-> "none", cached |-> FALSE]

LearnIdle ==
    /\ LearningStatusInit
    /\ ReqInit

CacheInit ==
    /\ table = {}
    /\ nextId = 1
    /\ now = 0
    /\ ticks = 0
    /\ ret = NoRet

\* job: the maintenance call in flight, in a session of its own.
\*   pc      "idle", or the statement the call sends next: "check" (the
\*           similarity search of a presence check), "hit" (its hit-count
\*           UPDATE), "exact" (its exact-match select), "invalidate" (the
\*           select of invalidate_cache), "unlink" (the flush of its
\*           DELETE), "save" (the select of save_to_cache), "flush" (its
\*           flush), "select" (the select of extend-TTL for one text),
\*           "commit" (the commit of the item, of cleanup or of
\*           extend-TTL, after the flush of what they marked), "return"
\*           (the phase returns);
\*   op      the phase: "pre_warm", "improve", "cleanup" or "extend";
\*   cycle   the phase is one of a learning cycle, not an endpoint's call;
\*   p       its arguments;
\*   items   the list its first query returned, k the item it is at;
\*   log     per item the loop has left behind, what became of it;
\*   found   the row the similarity search returned;
\*   dirty   the changes of the unit of work that no statement has sent,
\*           held the statements sent in the open transaction, each
\*           [kind, seen, row] as write, seen and row of tx;
\*   failed  a flush failed: the transaction is rolled back and the
\*           session raises PendingRollbackError until it is reset;
\*   status  "ok", or "raise" when an exception leaves the phase;
\*   done, skipped, errors   the counters of the summary;
\*   phases  the summaries of the phases of the cycle that have returned;
\*   before  the rows committed when the call began.
NoJob ==
    [pc |-> "idle", op |-> "none", cycle |-> FALSE, p |-> <<>>,
     items |-> <<>>, k |-> 0, log |-> <<>>, found |-> NoRow, dirty |-> {},
     held |-> {}, failed |-> FALSE, status |-> "none", done |-> 0,
     skipped |-> 0, errors |-> 0, phases |-> <<>>, before |-> {}]

TxIdle ==
    /\ tx = [s \in Sessions |-> NoTx]
    /\ served = 0
    /\ job = NoJob

OtherIdle ==
    /\ analytics = EmptyBag
    /\ calls = 0
    /\ arg = NoCall
    /\ val = NoCall

\* config.py line 22: semantic_cache_enabled, True unless the environment
\* sets it otherwise.
Init ==
    /\ LearnIdle
    /\ semantic_cache_enabled \in BOOLEAN
    /\ CacheInit
    /\ TxIdle
    /\ OtherIdle

InitDefault ==
    /\ LearnIdle
    /\ semantic_cache_enabled = TRUE
    /\ CacheInit
    /\ TxIdle
    /\ OtherIdle

(***************************************************************************)
(* The requests.  Every request has its own session (db/neon.py, get_db)   *)
(* and so its own transaction on the database, at the default isolation    *)
(* level READ COMMITTED: a statement sees the committed rows; a row        *)
(* written by an open transaction is locked until that transaction ends;   *)
(* an insert waits for an open transaction that inserted the same unique   *)
(* key.  A request gives way at every await, so each statement it sends is *)
(* a step of its own and the other sessions take their steps in between.   *)
(* The awaits that send no statement (the call of the Embedding Service,   *)
(* the answer pipeline) are part of the step of the statement that follows *)
(* them.                                                                   *)
(***************************************************************************)
RequestOps == {"store", "lookup", "invalidate", "chat"}

RowWrites == {"update", "increment", "delete"}

\* The transaction of request t holds what its write has locked.
Holding(t) == t.pc \in {"log", "commit"}

\* The open transaction of a session of S holds the lock of row id.
LockedBySession(S, id) ==
    \E t \in S :
        /\ Holding(tx[t])
        /\ tx[t].write \in RowWrites
        /\ tx[t].row.id = id

\* The open transaction of a session of S has inserted digest h.
InsertedBySession(S, h) ==
    \E t \in S :
        /\ Holding(tx[t])
        /\ tx[t].write = "insert"
        /\ tx[t].row.query_hash = h

\* The open transaction of the maintenance call holds the lock of row id,
\* has inserted digest h.
LockedByJob(id) ==
    \E w \in job.held : w.kind \in RowWrites /\ w.row.id = id

InsertedByJob(h) ==
    \E w \in job.held : w.kind = "insert" /\ w.row.query_hash = h

\* Another open transaction holds the lock of row id.
LockedByOther(s, id) ==
    LockedBySession(Sessions \ {s}, id) \/ LockedByJob(id)

\* Another open transaction has inserted digest h.
InsertedByOther(s, h) ==
    InsertedBySession(Sessions \ {s}, h) \/ InsertedByJob(h)

RowById(rows, id) ==
    IF \E r \in rows : r.id = id
    THEN CHOOSE r \in rows : r.id = id
    ELSE NoRow

\* The UPDATE the unit of work emits for a loaded row: it sets the columns
\* whose value differs from the loaded one and leaves the others as the
\* database has them.  expires_at is always set: the value assigned is the
\* time of the call plus a constant, which no loaded value equals.
\* query_embedding is set whenever a vector was assigned (semantic_cache.py
\* lines 152-153), also one equal to the vector loaded: the column
\* (db_models.py line 78) loads as an array, which the list assigned never
\* compares equal to.  query_embedding is the vector assigned, NoEmbedding
\* if none was.
OrmUpdate(cur, seen, w, query_embedding) ==
    [cur EXCEPT
       !.response = IF w.response # seen.response THEN w.response ELSE @,
       !.sources = IF w.sources # seen.sources THEN w.sources ELSE @,
       !.expires_at = w.expires_at,
       !.hit_count = IF w.hit_count # seen.hit_count THEN w.hit_count ELSE @,
       !.query_embedding =
           IF query_embedding # NoEmbedding THEN query_embedding ELSE @]

\* A call in flight beside which another session or the maintenance call
\* takes a step is no longer alone.
Disturbed(t) ==
    IF t.pc \in {"idle", "done"} THEN t ELSE [t EXCEPT !.alone = FALSE]

\* No call is in flight beside session s, beside the maintenance call.
Quiet(s) ==
    /\ \A u \in Sessions \ {s} : tx[u].pc \in {"idle", "done"}
    /\ job.pc = "idle"

AllQuiet == \A u \in Sessions : tx[u].pc \in {"idle", "done"}

\* What is left of an answered request.
Done(t) ==
    [NoTx EXCEPT !.pc = "done", !.op = t.op, !.h = t.h,
                 !.status = t.status, !.via = t.via]

\* The call of request t and what it returned.
Returned(t) ==
    IF t.op = "feedback"
    THEN [op |-> t.op, analytics_id |-> t.id, feedback |-> t.feedback,
          status |-> t.status]
    ELSE
    [op |-> t.op, q |-> t.q, embedded |-> t.embedded, status |-> t.status,
     via |-> t.via,
     id |-> IF t.op # "chat" /\ t.status = "raise" THEN 0 ELSE t.id,
     response |-> t.response, sources |-> t.sources, alone |-> t.alone,
     after |-> t.after, request |-> t.request,
     query_type |-> t.query_type, cached |-> t.cached]

\* Session s sends a statement, which leaves its request as t.
SessionStep(s, t) ==
    /\ tx' = [u \in Sessions |->
                 IF u # s THEN Disturbed(tx[u])
                 ELSE IF t.pc = "done" THEN Done(t) ELSE t]
    /\ ret' = IF t.pc = "done" THEN Returned(t) ELSE NoRet
    /\ UNCHANGED job

\* An exception leaves the request: get_db rolls the session back
\* (db/neon.py lines 77-79) and, for a chat request, the server answers 500.
Failed(t) ==
    [t EXCEPT !.pc = "done",
              !.status = IF t.op = "chat" THEN 500 ELSE "raise",
              !.write = "none", !.seen = NoRow, !.row = NoRow]

\* Session s takes a new request: the pool hands out its first free
\* session.
Begin(s) ==
    /\ tx[s].pc = "idle"
    /\ \A u \in Sessions : u < s => tx[u].pc # "idle"
    /\ served < MaxRequests
    /\ served' = served + 1

NewRequest(s, op, q, reply) ==
    [NoTx EXCEPT !.op = op, !.q = q, !.h = generate_query_hash(q),
                 !.embedded = reply \in Vectors, !.alone = Quiet(s)]

\* save_to_cache up to its flush: the embedding call and the select
\* (semantic_cache.py lines 133-164).
StoreSelect(s, q, response, sources, reply) ==
    LET e == get_query_embedding(reply)
        S == SelectByHash(table, generate_query_hash(q))
        existing == ScalarOneOrNone(S)
        w == save_to_cache_row(existing, q, response, sources, e, now, nextId)
        t == [NewRequest(s, "store", q, reply) EXCEPT
                !.response = response, !.sources = sources]
    IN /\ Begin(s)
       /\ existing.id = 0 => nextId <= MaxIds
       /\ IF e = <<"raise">> \/ Cardinality(S) > 1
          THEN /\ SessionStep(s, Failed(t))
               /\ UNCHANGED nextId
          ELSE /\ SessionStep(s,
                     [t EXCEPT !.pc = "flush",
                               !.via = IF existing.id # 0 THEN "update"
                                       ELSE "insert",
                               !.write = IF existing.id # 0 THEN "update"
                                         ELSE "insert",
                               !.id = w.id, !.seen = existing, !.row = w,
                               !.query_embedding =
                                  IF existing.id # 0 THEN e
                                  ELSE NoEmbedding])
               /\ nextId' = IF existing.id = 0 THEN nextId + 1 ELSE nextId
       /\ UNCHANGED <<semantic_cache_enabled, table, now, ticks>>

\* The request of t has a semantic hit on row: the answer it returns and
\* the hit-count UPDATE it sends next (lines 99-110).
SemanticHitOn(t, row) ==
    LET hit == Hit(row, "semantic")
    IN [t EXCEPT !.pc = "flush", !.status = hit.status, !.via = hit.via,
                 !.id = hit.id, !.response = hit.response,
                 !.sources = hit.sources, !.write = "increment",
                 !.seen = row, !.cached = TRUE]

\* The request of t after the first await of get_cached_response (lines
\* 60-99): the embedding call and, on the semantic path, the similarity
\* search, which returned row.
AfterSearch(t, reply, row) ==
    LET path == get_cached_response(semantic_cache_enabled, reply, row)
    IN IF path = "raise" THEN Failed(t)
       ELSE IF path = "hit" THEN SemanticHitOn(t, row)
       ELSE IF path = "miss"
       THEN [t EXCEPT !.pc = IF t.op = "chat" THEN "save" ELSE "commit",
                      !.status = "miss"]
       ELSE [t EXCEPT !.pc = "exact"]

\* get_cached_response up to its UPDATE or its exact-match lookup.
LookupSelect(s, q, reply, row) ==
    /\ Begin(s)
    /\ row \in SearchRows(table, semantic_cache_enabled, reply, now)
    /\ SessionStep(s, AfterSearch(NewRequest(s, "lookup", q, reply), reply,
                                  row))
    /\ UNCHANGED <<semantic_cache_enabled, table, nextId, now, ticks>>

\* The exact-match lookup (lines 62, 70 and 113; exact_match.py): the
\* select by digest, on the rows committed when it runs.  A chat request
\* goes on to log a hit, and to answer a miss.
LookupExact(s) ==
    LET t == tx[s]
        res == exact_match_get_cached_response(table, t.q, now)
        hit == res.status = "hit"
    IN /\ t.pc = "exact"
       /\ SessionStep(s,
             [t EXCEPT !.pc = IF t.op # "chat" THEN "commit"
                              ELSE IF hit THEN "log" ELSE "save",
                       !.status = res.status, !.via = res.via,
                       !.id = res.id, !.response = res.response,
                       !.sources = res.sources, !.cached = hit])
       /\ UNCHANGED <<semantic_cache_enabled, table, nextId, now, ticks,
                      served>>

\* invalidate_cache up to its flush (lines 172-180).
InvalidateSelect(s, q) ==
    LET out == invalidate_cache(table, q)
        t == [NewRequest(s, "invalidate", q, <<>>) EXCEPT
                !.status = out.status,
                !.after = IF ret.op \in RequestOps /\ ret.alone
                          THEN <<ret.op, ret.q>> ELSE NoCall]
    IN /\ Begin(s)
       /\ SessionStep(s,
             IF out.status = "raise" THEN Failed(t)
             ELSE IF out.status = "true"
             THEN [t EXCEPT !.pc = "flush", !.write = "delete",
                            !.seen = out.cache_entry,
                            !.row = out.cache_entry]
             ELSE [t EXCEPT !.pc = "commit"])
       /\ UNCHANGED <<semantic_cache_enabled, table, nextId, now, ticks>>

\* The statement after the flush of the request's write: the commit, or in
\* a chat request the insert of the analytics row.
AfterFlush(t) == IF t.op = "chat" THEN "log" ELSE "commit"

\* The flush of an insert (line 166, db_models.py line 75): it waits for an
\* open transaction that wrote the same digest, and fails with
\* IntegrityError, ending the request, if the digest is committed.
FlushInsert(s) ==
    LET t == tx[s]
        w == t.row
        clash == SelectByHash(table, w.query_hash)
    IN /\ t.pc = "flush"
       /\ t.write = "insert"
       /\ ~InsertedByOther(s, w.query_hash)
       /\ \A r \in clash : ~LockedByOther(s, r.id)
       /\ SessionStep(s, IF UniqueViolation(table, w) THEN Failed(t)
                         ELSE [t EXCEPT !.pc = AfterFlush(t)])
       /\ UNCHANGED <<semantic_cache_enabled, table, nextId, now, ticks,
                      served>>

\* The flush of a write to a loaded or found row: it waits for the row's
\* lock and then acts on the row as committed.  If the row is gone, the
\* unit of work's UPDATE raises StaleDataError; the hit-count UPDATE and the
\* DELETE match no row and pass.
FlushRowWrite(s) ==
    LET t == tx[s]
        id == t.seen.id
        cur == RowById(table, id)
    IN /\ t.pc = "flush"
       /\ t.write \in RowWrites
       /\ ~LockedByOther(s, id)
       /\ SessionStep(s,
             IF cur.id = 0 /\ t.write # "update"
             THEN [t EXCEPT !.pc = AfterFlush(t), !.write = "none"]
             ELSE IF cur.id = 0 THEN Failed(t)
             ELSE IF t.write = "update"
             THEN [t EXCEPT !.pc = AfterFlush(t),
                            !.row = OrmUpdate(cur, t.seen, t.row,
                                              t.query_embedding)]
             ELSE IF t.write = "increment"
             THEN [t EXCEPT !.pc = AfterFlush(t),
                            !.row = hit_count_plus_one(cur, t.seen)]
             ELSE [t EXCEPT !.pc = AfterFlush(t), !.row = cur])
       /\ UNCHANGED <<semantic_cache_enabled, table, nextId, now, ticks,
                      served>>

\* The rows after the transaction of s commits.
Committed(rows, t) ==
    IF t.write = "insert" THEN rows \cup {t.row}
    ELSE IF t.write \in {"update", "increment"}
    THEN {r \in rows : r.id # t.row.id} \cup {t.row}
    ELSE IF t.write = "delete" THEN {r \in rows : r.id # t.row.id}
    ELSE rows

\* The analytics rows after the transaction of t commits: the row a
\* feedback request has updated is the committed row of the id it loaded,
\* which has the feedback it loaded or the one another request has
\* committed since.
Rated(records, t) ==
    LET seen == CHOOSE r \in BagToSet(t.loaded) : TRUE
        cur == IF BagIn(seen, records) THEN seen
               ELSE CHOOSE r \in BagToSet(records) :
                       [r EXCEPT !.feedback = seen.feedback] = seen
    IN IF t.write = "feedback" THEN record_feedback(records, cur, t.feedback)
       ELSE records (+) t.record

\* The caller's commit (chat.py lines 155, 239; analytics.py line 93;
\* neon.py line 76), which makes the request's write and the analytics row
\* of a chat request visible; the request returns.
Commit(s) ==
    LET t == tx[s]
    IN /\ t.pc = "commit"
       /\ table' = Committed(table, t)
       /\ analytics' = Rated(analytics, t)
       /\ SessionStep(s,
             [t EXCEPT !.pc = "done",
                       !.status = IF t.op \in {"chat", "feedback"} THEN 200
                                  ELSE IF @ = "none" THEN "ok" ELSE @])
       /\ UNCHANGED <<semantic_cache_enabled, nextId, now, ticks, served>>

\* The request is answered; the session serves the next one.
Answered(s) ==
    /\ tx[s].pc = "done"
    /\ tx' = [tx EXCEPT ![s] = NoTx]
    /\ ret' = NoRet
    /\ UNCHANGED <<semantic_cache_enabled, table, nextId, now, ticks, served,
                   job>>

\* Time passes, a whole TTL at a time, which is far longer than a call
\* takes: the clock steps between the calls.
ClockSteps == {cache_ttl_hours}

Tick(d) ==
    /\ ticks < MaxTicks
    /\ AllQuiet
    /\ job.pc = "idle"
    /\ now' = now + d
    /\ ticks' = ticks + 1
    /\ ret' = NoRet
    /\ UNCHANGED <<semantic_cache_enabled, table, nextId, tx, served, job>>

(***************************************************************************)
(* Spec: the cache calls store, lookup and invalidate of the requests,     *)
(* statement by statement, in either configuration, with the Embedding     *)
(* Service answering or failing, and the clock.                            *)
(***************************************************************************)
Next ==
    \/ \E s \in Sessions, q \in Queries, a \in Answers :
          \E reply \in EmbeddingReplies(q) :
             StoreSelect(s, q, a.response, a.sources, reply)
             /\ UNCHANGED <<learnVars, otherVars>>
    \/ \E s \in Sessions, q \in Queries :
          \E reply \in EmbeddingReplies(q), row \in table \cup {NoRow} :
             LookupSelect(s, q, reply, row)
             /\ UNCHANGED <<learnVars, otherVars>>
    \/ \E s \in Sessions, q \in Queries :
          InvalidateSelect(s, q) /\ UNCHANGED <<learnVars, otherVars>>
    \/ \E s \in Sessions :
          LookupExact(s) /\ UNCHANGED <<learnVars, otherVars>>
    \/ \E s \in Sessions :
          FlushInsert(s) /\ UNCHANGED <<learnVars, otherVars>>
    \/ \E s \in Sessions :
          FlushRowWrite(s) /\ UNCHANGED <<learnVars, otherVars>>
    \/ \E s \in Sessions :
          Commit(s) /\ UNCHANGED <<learnVars, calls, arg, val>>
    \/ \E s \in Sessions :
          Answered(s) /\ UNCHANGED <<learnVars, otherVars>>
    \/ \E d \in ClockSteps : Tick(d) /\ UNCHANGED <<learnVars, otherVars>>

Spec == Init /\ [][Next]_vars

(***************************************************************************)
(* SpecTx: the same requests in the default configuration with the         *)
(* Embedding Service answering, at one time of the clock.                  *)
(***************************************************************************)
NextTx ==
    \/ \E s \in Sessions, q \in Queries, a \in Answers :
          \E reply \in {Embed(q)} :
             StoreSelect(s, q, a.response, a.sources, reply)
             /\ UNCHANGED <<learnVars, otherVars>>
    \/ \E s \in Sessions, q \in Queries :
          \E reply \in {Embed(q)}, row \in table \cup {NoRow} :
             LookupSelect(s, q, reply, row)
             /\ UNCHANGED <<learnVars, otherVars>>
    \/ \E s \in Sessions, q \in Queries :
          InvalidateSelect(s, q) /\ UNCHANGED <<learnVars, otherVars>>
    \/ \E s \in Sessions :
          LookupExact(s) /\ UNCHANGED <<learnVars, otherVars>>
    \/ \E s \in Sessions :
          FlushInsert(s) /\ UNCHANGED <<learnVars, otherVars>>
    \/ \E s \in Sessions :
          FlushRowWrite(s) /\ UNCHANGED <<learnVars, otherVars>>
    \/ \E s \in Sessions :
          Commit(s) /\ UNCHANGED <<learnVars, calls, arg, val>>
    \/ \E s \in Sessions :
          Answered(s) /\ UNCHANGED <<learnVars, otherVars>>

SpecTx == InitDefault /\ [][NextTx]_vars

(***************************************************************************)
(* SpecHash: generate_query_hash as a function of the query text.  arg     *)
(* holds a text q and a text v that differs from q only in letter case, in *)
(* leading or trailing whitespace and in the length of its whitespace      *)
(* runs; val holds the digests computed for them.                          *)
(***************************************************************************)
Chars == {"a", "A", " ", "\t"}

Texts == UNION {[1..n -> Chars] : n \in 0..MaxLen}

\* The digests of q, of v, and of the normalized v.
Digests(a) ==
    [q |-> generate_query_hash(a.q),
     v |-> generate_query_hash(a.v),
     vn |-> generate_query_hash(Normalize(a.v))]

HashInit ==
    /\ LearnIdle
    /\ semantic_cache_enabled = TRUE
    /\ CacheInit
    /\ TxIdle
    /\ analytics = EmptyBag
    /\ calls = 0
    /\ \E q \in Texts : arg = [q |-> q, v |-> q]
    /\ val = NoCall

\* The digest of the text as given.
Digest ==
    /\ val = NoCall
    /\ val' = Digests(arg)
    /\ UNCHANGED arg

\* The digest of a variant of v: v with w in place of it.
DigestVariant(w) ==
    /\ arg' = [arg EXCEPT !.v = w]
    /\ val' = Digests(arg')

\* Position k of s holds a whitespace character.
SpaceAt(s, k) == k \in 1..Len(s) /\ s[k] \in Whitespace

\* The letter at position k in the other case.
SwapCase(k) ==
    /\ arg.v[k] \in {"a", "A"}
    /\ DigestVariant([arg.v EXCEPT ![k] = IF @ = "a" THEN "A" ELSE "a"])

\* One more whitespace character c after position k: before the text, after
\* it, or next to a whitespace character.
InsertSpace(k, c) ==
    /\ Len(arg.v) < MaxLen
    /\ (k = 0 \/ k = Len(arg.v) \/ SpaceAt(arg.v, k) \/ SpaceAt(arg.v, k + 1))
    /\ DigestVariant(SubSeq(arg.v, 1, k) \o <<c>>
                        \o SubSeq(arg.v, k + 1, Len(arg.v)))

\* One whitespace character less at position k: the first or the last
\* character, or one next to a whitespace character.
RemoveSpace(k) ==
    /\ SpaceAt(arg.v, k)
    /\ (k = 1 \/ k = Len(arg.v) \/ SpaceAt(arg.v, k - 1)
          \/ SpaceAt(arg.v, k + 1))
    /\ DigestVariant(SubSeq(arg.v, 1, k - 1)
                        \o SubSeq(arg.v, k + 1, Len(arg.v)))

NextHash ==
    \/ Digest /\ UNCHANGED <<learnVars, cacheVars, txVars, analytics, calls>>
    \/ \E k \in 1..Len(arg.v) :
          SwapCase(k) /\ UNCHANGED <<learnVars, cacheVars, txVars, analytics, calls>>
    \/ \E k \in 0..Len(arg.v), c \in Whitespace :
          InsertSpace(k, c)
          /\ UNCHANGED <<learnVars, cacheVars, txVars, analytics, calls>>
    \/ \E k \in 1..Len(arg.v) :
          RemoveSpace(k)
          /\ UNCHANGED <<learnVars, cacheVars, txVars, analytics, calls>>

SpecHash == HashInit /\ [][NextHash]_vars

(***************************************************************************)
(* SpecRouter: classify_query, services/router/llm_router.py.  A query is  *)
(* a string and a keyword is in the query when it is a substring of the    *)
(* lowered query.  The Korean keywords are written in Latin letters.       *)
(* Confidences are in hundredths.                                          *)
(***************************************************************************)
\* lines 88-91
time_keywords ==
    {"choesin", "choegeun", "saeroun", "oneul", "ibeon", "yojeum",
     "2024", "2025", "2026", "teurendeu", "donghyang", "tteuneun"}

\* lines 94-97
concept_keywords ==
    {"mwoya", "mwongayo", "seolmyeong", "allyeojwo", "wonri", "gaenyeom",
     "chai", "bigyo", "eotteoke jakdong", "mueosinga"}

\* lines 100-102
search_keywords == {"chaja", "geomsaek", "nonmun", "paper", "isseo", "arabwa"}

\* lines 120 and 122
paper_keywords == {"nonmun", "paper", "arxiv"}

model_keywords == {"model", "huggingface", "space"}

\* The queries classified: no word, one word, or two words with a space
\* between.  Some words hold a keyword inside a longer word, and two of
\* them make up the keyword that has a space in it.
Words ==
    {"2024", "seolmyeong", "chaja", "Paper", "arxiv", "model", "hi",
     "newspapers", "workspace", "eotteoke", "jakdong"}

RouterQueries ==
    {""} \cup Words \cup {a \o " " \o b : a, b \in Words}

\* str.lower(), one character at a time.
LowerOf ==
    [A |-> "a", B |-> "b", C |-> "c", D |-> "d", E |-> "e", F |-> "f", G
     |-> "g", H |-> "h", I |-> "i", J |-> "j", K |-> "k", L |-> "l", M
     |-> "m", N |-> "n", O |-> "o", P |-> "p", Q |-> "q", R |-> "r", S
     |-> "s", T |-> "t", U |-> "u", V |-> "v", W |-> "w", X |-> "x", Y
     |-> "y", Z |-> "z"]

LowerChar(c) == IF c \in DOMAIN LowerOf THEN LowerOf[c] ELSE c

RECURSIVE LowerFrom(_, _)
LowerFrom(q, k) ==
    IF k > Len(q) THEN ""
    ELSE LowerChar(SubSeq(q, k, k)) \o LowerFrom(q, k + 1)

\* line 85
query_lower(q) == LowerFrom(q, 1)

\* kw in text: kw is a substring of text.
Contains(kw, text) ==
    \E i \in 1..(Len(text) - Len(kw) + 1) :
        SubSeq(text, i, i + Len(kw) - 1) = kw

\* any(kw in query_lower for kw in keywords)
HasAny(text, keywords) ==
    \E kw \in keywords : Contains(kw, text)

NoRule ==
    [query_type |-> "none", confidence |-> 0, reasoning |-> "",
     mcp_targets |-> <<>>]

\* lines 119-125: the targets of a real-time search.
rule_targets_without_default(text) ==
    (IF HasAny(text, paper_keywords) THEN <<"arxiv">> ELSE <<>>)
    \o (IF HasAny(text, model_keywords) THEN <<"huggingface">> ELSE <<>>)

rule_targets(text) ==
    LET targets ==
           (IF HasAny(text, paper_keywords) THEN <<"arxiv">> ELSE <<>>)
           \o (IF HasAny(text, model_keywords) THEN <<"huggingface">>
                                                ELSE <<>>)
    IN IF targets = <<>> THEN <<"arxiv">> ELSE targets

\* lines 83-144: the rule's result, NoRule for None.
rule_based_classify(q) ==
    LET text == query_lower(q)
        has_time == HasAny(text, time_keywords)
        has_concept == HasAny(text, concept_keywords)
        has_search == HasAny(text, search_keywords)
    IN IF has_time /\ has_concept
       THEN [query_type |-> "hybrid", confidence |-> 85,
             reasoning |-> "time and concept", mcp_targets |-> <<"arxiv">>]
       ELSE IF has_time \/ has_search
       THEN [query_type |-> "mcp", confidence |-> 85,
             reasoning |-> "time or search",
             mcp_targets |-> rule_targets(text)]
       ELSE IF has_concept
       THEN [query_type |-> "rag", confidence |-> 85,
             reasoning |-> "concept", mcp_targets |-> <<>>]
       ELSE NoRule

\* What the Generation Service does when asked to classify: the call raises
\* (an error or a timeout), the content is not JSON, or it is a JSON object.
\* A field of the object is "absent", "invalid" (null or of a type the
\* RouterResult model rejects) or "given" with the value v.
Absent == [st |-> "absent"]

Invalid == [st |-> "invalid"]

Given(v) == [st |-> "given", v |-> v]

NoReply == [kind |-> "none"]

QueryTypes == {"rag", "mcp", "hybrid"}

ReplyQueryTypes == {Absent, Invalid} \cup {Given(v) : v \in QueryTypes \cup {"web"}}

ReplyConfidences == {Absent, Invalid} \cup {Given(v) : v \in {-10, 0, 90, 100, 150}}

ReplyReasonings == {Absent, Invalid, Given("because")}

ReplyTargets == {Absent, Invalid} \cup {Given(v) : v \in {<<>>, <<"arxiv">>}}

LLMReplies ==
    {[kind |-> "raise"], [kind |-> "unparsable"]}
    \cup {[kind |-> "json", query_type |-> a, confidence |-> b,
            reasoning |-> r, mcp_targets |-> c] :
              a \in ReplyQueryTypes, b \in ReplyConfidences,
              r \in ReplyReasonings, c \in ReplyTargets}

\* result.get(key, default)
Get(field, default) == IF field = Absent THEN default ELSE field.v

\* lines 170-177: the result on any exception.
Fallback_as_llm_default ==
    [query_type |-> "rag", confidence |-> 70, reasoning |-> "llm",
     mcp_targets |-> <<>>]

Fallback ==
    [query_type |-> "rag", confidence |-> 50, reasoning |-> "fallback",
     mcp_targets |-> <<>>]

\* lines 147-177.  The exceptions of the try block: the call raising,
\* json.loads, QueryType(...) of an unknown value, the validation of the
\* four RouterResult fields.
llm_classify(reply) ==
    IF reply.kind # "json" THEN Fallback
    ELSE IF \/ reply.query_type = Invalid
            \/ reply.confidence = Invalid
            \/ reply.reasoning = Invalid
            \/ reply.mcp_targets = Invalid
            \/ Get(reply.query_type, "rag") \notin QueryTypes
    THEN Fallback
    ELSE [query_type |-> Get(reply.query_type, "rag"),
          confidence |-> Get(reply.confidence, 70),
          reasoning |-> Get(reply.reasoning, "llm"),
          mcp_targets |-> Get(reply.mcp_targets, <<>>)]

\* lines 67-80: the result and how many calls of the Generation Service
\* were made for it.
classify_query(q, reply) ==
    LET rule_result == rule_based_classify(q)
    IN IF rule_result # NoRule /\ rule_result.confidence >= 80
       THEN [result |-> rule_result, llm_calls |-> 0]
       ELSE [result |-> llm_classify(reply), llm_calls |-> 1]

\* The call of classify_query; arg is the query and, when the Generation
\* Service was called, what it did.
Classify(q, reply) ==
    LET done == classify_query(q, reply)
    IN /\ val = NoCall
       /\ arg' = [q |-> q,
                  reply |-> IF done.llm_calls = 0 THEN NoReply ELSE reply]
       /\ val' = done

NextRouter ==
    \E q \in RouterQueries, reply \in LLMReplies :
       Classify(q, reply)
       /\ UNCHANGED <<learnVars, cacheVars, txVars, analytics, calls>>

SpecRouter == InitDefault /\ [][NextRouter]_vars
(***************************************************************************)
(* SpecMerge: _merge_and_rank_sources, routers/chat.py.  A citation is     *)
(* [origin, n, relevance_score]: the list it came in, its place there and  *)
(* its score, Absent when the citation has no "relevance_score" key.       *)
(* Scores are in thousandths.                                              *)
(***************************************************************************)
\* The scores the citations come with: live-source ones unscored or 0.7,
\* knowledge-base ones unscored or 0.95.
McpScores == {Absent, Given(700)}

RagScores == {Absent, Given(950)}

\* The lists of at most n citations of an origin.
SourceLists(origin, scores, n) ==
    UNION {{[k \in 1..len |->
               [origin |-> origin, n |-> k, relevance_score |-> f[k]]] :
              f \in [1..len -> scores]} : len \in 0..n}

\* lines 100 and 108: score *= 1.1
Boost(score) == (score * 11) \div 10

\* lines 99 and 107: whether the citations of an origin are boosted.
Boosted_always(origin, query_type) == TRUE

Boosted(origin, query_type) == origin = query_type

\* lines 101 and 109: min(score, 1.0)
Clamp(score) == IF score < 1000 THEN score ELSE 1000

\* lines 98-101 and 106-109: the citation with its score set.
Rescore(src, default, query_type) ==
    LET score == Get(src.relevance_score, default)
    IN [src EXCEPT !.relevance_score =
           Given(Clamp(IF Boosted(src.origin, query_type)
                       THEN Boost(score) ELSE score))]

\* line 113: the sort key.
SortKey(src) == Get(src.relevance_score, 0)

\* The place of src in a list sorted by decreasing key: after every
\* citation whose key is not lower.
InsertDesc_before_equal(sorted, src) ==
    LET k == Cardinality({i \in 1..Len(sorted) :
                             SortKey(sorted[i]) > SortKey(src)})
    IN SubSeq(sorted, 1, k) \o <<src>> \o SubSeq(sorted, k + 1, Len(sorted))

InsertDesc(sorted, src) ==
    LET k == Cardinality({i \in 1..Len(sorted) :
                             SortKey(sorted[i]) >= SortKey(src)})
    IN SubSeq(sorted, 1, k) \o <<src>> \o SubSeq(sorted, k + 1, Len(sorted))

\* line 113: list.sort(key, reverse=True), which is stable.
RECURSIVE SortDesc(_, _)
SortDesc(sorted, list) ==
    IF list = <<>> THEN sorted
    ELSE SortDesc(InsertDesc(sorted, Head(list)), Tail(list))

\* line 116: all_sources[:10]
max_sources == 10

\* lines 88-116
merge_and_rank_sources(rag_sources, mcp_sources, query_type) ==
    LET mcp == [k \in 1..Len(mcp_sources) |->
                  Rescore(mcp_sources[k], 800, query_type)]
        rag == [k \in 1..Len(rag_sources) |->
                  Rescore(rag_sources[k], 700, query_type)]
        all_sources == SortDesc(<<>>, mcp \o rag)
    IN Limit(all_sources, max_sources)

\* The call of _merge_and_rank_sources.
Merge(rag_sources, mcp_sources, query_type) ==
    /\ val = NoCall
    /\ arg' = [rag_sources |-> rag_sources, mcp_sources |-> mcp_sources,
               query_type |-> query_type]
    /\ val' = [sources |->
                  merge_and_rank_sources(rag_sources, mcp_sources,
                                         query_type)]

NextMerge ==
    \E rag_sources \in SourceLists("rag", RagScores, MaxRagSources),
       mcp_sources \in SourceLists("mcp", McpScores, MaxMcpSources),
       query_type \in QueryTypes :
       Merge(rag_sources, mcp_sources, query_type)
       /\ UNCHANGED <<learnVars, cacheVars, txVars, analytics, calls>>

SpecMerge == InitDefault /\ [][NextMerge]_vars

(***************************************************************************)
(* SpecChat: the chat endpoint, routers/chat.py lines 119-251, statement   *)
(* by statement in the request's session, with what each collaborator does *)
(* during it.                                                              *)
(***************************************************************************)
\* The texts of the requests: two queries, one of them also with a trailing
\* blank, a blank text and the empty text.
ChatTexts == { <<"a">>, <<"b">>, <<"b", " ">>, <<" ">>, <<>> }

\* The query as the router reads it: the first query asks for this year's
\* models, the others have no keyword.
KeywordsOf(query) == IF query = <<"a">> THEN "2024 model" ELSE "hi"

\* What the Generation Service replies when the router asks it: the call
\* raises, or one of the three query types with or without a target.
ChatRouterReplies ==
    {r \in LLMReplies :
        \/ r.kind = "raise"
        \/ /\ r.kind = "json"
           /\ r.query_type \in {Given(v) : v \in QueryTypes}
           /\ r.confidence = Given(90)
           /\ r.reasoning = Given("because")
           /\ r.mcp_targets \in {Given(<<>>), Given(<<"arxiv">>)}}

\* What the retrieval meets: the Embedding Service raises, the Knowledge
\* Store raises, or the store answers with no document or with one.
RetrievalEnvs == {"embed_raises", "store_raises", "none", "one"}

\* What a search of a Live-Source Client meets: the request fails, or it
\* answers with no result or with one.
SearchEnvs == {"fails", "none", "one"}

\* What the Generation Service does when asked for the answer.
AnswerEnvs == {"ok", "raise"}

\* A collaborator the request does not call.
Unused == {"unused"}

\* A context and its citations; raise: the call raised.
NoContext == [status |-> "ok", context |-> FALSE, sources |-> <<>>]

ContextRaised == [status |-> "raise", context |-> FALSE, sources |-> <<>>]

\* retriever.py lines 6-49: get_embedding and collection.query are called
\* outside any try; the documents come with their scores.
retrieve_documents(env) ==
    IF env \in {"embed_raises", "store_raises"}
    THEN [status |-> "raise", documents |-> <<>>]
    ELSE [status |-> "ok",
          documents |-> IF env = "one" THEN <<[score |-> 950]>> ELSE <<>>]

\* chat.py lines 70-85; context: whether the context text is non-empty.
get_rag_context(env) ==
    LET found == retrieve_documents(env)
    IN IF found.status = "raise" THEN ContextRaised
       ELSE [status |-> "ok", context |-> found.documents # <<>>,
             sources |-> [k \in 1..Len(found.documents) |->
                            [origin |-> "rag", n |-> k,
                             relevance_score |->
                                Given(found.documents[k].score)]]]

\* arxiv_client.py lines 73-88, huggingface_client.py lines 67-88 and
\* 119-141: a failed request is caught and gives no result.
search_results(env, score) ==
    IF env = "one" THEN <<score>> ELSE <<>>

\* "arxiv" in targets
InTargets(target, targets) == \E k \in 1..Len(targets) : targets[k] = target

\* chat.py lines 22-67
get_mcp_context(targets, env) ==
    LET papers == IF InTargets("arxiv", targets)
                  THEN search_results(env.arxiv, 900) ELSE <<>>
        spaces == IF InTargets("huggingface", targets)
                  THEN search_results(env.spaces, 850) ELSE <<>>
        models == IF InTargets("huggingface", targets)
                  THEN search_results(env.models, 850) ELSE <<>>
        scores == papers \o spaces \o models
    IN [status |-> "ok", context |-> scores # <<>>,
        sources |-> [k \in 1..Len(scores) |->
                       [origin |-> "mcp", n |-> k,
                        relevance_score |-> Given(scores[k])]]]

\* What the collaborators of a miss may do, for the router's result; a
\* collaborator that is not called is "unused".
MissEnvs(query, router_result) ==
    LET query_type == router_result.query_type
        targets == router_result.mcp_targets
        live == query_type \in {"mcp", "hybrid"}
    IN [retrieval : IF query_type \in {"rag", "hybrid"}
                    THEN RetrievalEnvs ELSE Unused,
        arxiv : IF live /\ InTargets("arxiv", targets)
                THEN SearchEnvs ELSE Unused,
        spaces : IF live /\ InTargets("huggingface", targets)
                 THEN SearchEnvs ELSE Unused,
        models : IF live /\ InTargets("huggingface", targets)
                 THEN SearchEnvs ELSE Unused,
        generate : AnswerEnvs,
        save_reply : EmbeddingReplies(query)]

\* chat.py lines 173-224: the contexts, the merged citations and the
\* answer, for the router's result; raise: an exception leaves the handler.
chat_answer(router_result, env) ==
    LET query_type == router_result.query_type
        rag == IF query_type \in {"rag", "hybrid"}
               THEN get_rag_context(env.retrieval) ELSE NoContext
        mcp == IF query_type \in {"mcp", "hybrid"}
               THEN get_mcp_context(router_result.mcp_targets, env)
               ELSE NoContext
        all_sources == merge_and_rank_sources(rag.sources, mcp.sources,
                                              query_type)
        combined_context == mcp.context \/ rag.context
        response_text == IF combined_context THEN "generated" ELSE "apology"
    IN IF rag.status = "raise" \/ (combined_context /\ env.generate = "raise")
       THEN [status |-> "raise", response |-> "", sources |-> <<>>]
       ELSE [status |-> "ok", response |-> response_text,
             sources |-> all_sources]

\* POST /api/chat with the text request, up to the first statement the
\* handler sends (lines 133-140): an empty query is rejected with 400
\* before any; otherwise get_cached_response up to its UPDATE or its
\* exact-match lookup.
ChatBegin(s, request) ==
    LET query == Strip(request)
    IN /\ tx[s].pc = "idle"
       /\ \A u \in Sessions : u < s => tx[u].pc # "idle"
       /\ served < MaxChats
       /\ served' = served + 1
       /\ IF query = <<>>
          THEN SessionStep(s,
                  [NoTx EXCEPT !.pc = "done", !.op = "chat",
                               !.request = request, !.status = 400,
                               !.alone = Quiet(s)])
          ELSE \E reply \in EmbeddingReplies(query) :
               \E row \in SearchRows(table, semantic_cache_enabled, reply,
                                     now) :
                  SessionStep(s,
                     AfterSearch([NewRequest(s, "chat", query, reply) EXCEPT
                                     !.request = request],
                                 reply, row))
       /\ UNCHANGED <<semantic_cache_enabled, table, nextId, now, ticks>>

\* The request of t after the miss path up to the flush of save_to_cache
\* (chat.py lines 170-227, semantic_cache.py lines 133-164): the router,
\* the contexts, the answer, the embedding call and the select by digest,
\* which returned the rows S.
chat_save(t, S, router_result, env, time, newid) ==
    LET answer == chat_answer(router_result, env)
        e == get_query_embedding(env.save_reply)
        existing == ScalarOneOrNone(S)
        w == save_to_cache_row(existing, t.q, answer.response,
                               answer.sources, e, time, newid)
    IN IF answer.status = "raise" \/ e = <<"raise">> \/ Cardinality(S) > 1
       THEN Failed(t)
       ELSE [t EXCEPT !.pc = "flush",
                      !.query_type = router_result.query_type,
                      !.response = answer.response,
                      !.sources = answer.sources,
                      !.write = IF existing.id # 0 THEN "update"
                                ELSE "insert",
                      !.id = w.id, !.seen = existing, !.row = w,
                      !.query_embedding = IF existing.id # 0 THEN e
                                          ELSE NoEmbedding]

\* What the miss path may leave the request of t as, over what the
\* Generation Service replies to the router and what the collaborators do.
ChatSaves(t, S, time, newid) ==
    UNION {LET router_result ==
                  classify_query(KeywordsOf(t.q), router_reply).result
           IN {chat_save(t, S, router_result, env, time, newid) :
                  env \in MissEnvs(t.q, router_result)} :
              router_reply \in ChatRouterReplies}

\* The select of save_to_cache in a chat request, on the rows committed
\* when it runs, with all that the handler does before it.
ChatSave(s) ==
    LET t == tx[s]
    IN /\ t.pc = "save"
       /\ \E u \in ChatSaves(t, SelectByHash(table, t.h), now, nextId) :
             /\ u.write = "insert" => nextId <= MaxIds
             /\ SessionStep(s, u)
             /\ nextId' = IF u.write = "insert" THEN nextId + 1 ELSE nextId
       /\ UNCHANGED <<semantic_cache_enabled, table, now, ticks, served>>

\* log_query (chat.py lines 147-154 and 231-238): the insert of the
\* analytics row, with source type "cache" for a hit and the router's query
\* type for a miss.
ChatLog(s) ==
    LET t == tx[s]
    IN /\ t.pc = "log"
       /\ SessionStep(s,
             [t EXCEPT !.pc = "commit",
                       !.record = log_query(@, t.q,
                                     IF t.cached THEN "cache"
                                     ELSE t.query_type, now)])
       /\ UNCHANGED <<semantic_cache_enabled, table, nextId, now, ticks,
                      served>>

NextChat ==
    \/ \E s \in Sessions, request \in ChatTexts :
          ChatBegin(s, request) /\ UNCHANGED <<learnVars, otherVars>>
    \/ \E s \in Sessions :
          LookupExact(s) /\ UNCHANGED <<learnVars, otherVars>>
    \/ \E s \in Sessions :
          ChatSave(s) /\ UNCHANGED <<learnVars, otherVars>>
    \/ \E s \in Sessions :
          FlushInsert(s) /\ UNCHANGED <<learnVars, otherVars>>
    \/ \E s \in Sessions :
          FlushRowWrite(s) /\ UNCHANGED <<learnVars, otherVars>>
    \/ \E s \in Sessions :
          ChatLog(s) /\ UNCHANGED <<learnVars, otherVars>>
    \/ \E s \in Sessions :
          Commit(s) /\ UNCHANGED <<learnVars, calls, arg, val>>
    \/ \E s \in Sessions :
          Answered(s) /\ UNCHANGED <<learnVars, otherVars>>
    \/ \E d \in ClockSteps : Tick(d) /\ UNCHANGED <<learnVars, otherVars>>

SpecChat == InitDefault /\ [][NextChat]_vars

(***************************************************************************)
(* SpecFeedback: the feedback endpoint, routers/analytics.py lines 73-102, *)
(* over analytics rows that carry their id (QueryAnalytics.id, a uuid in   *)
(* the code, here the ordinal of the row).                                 *)
(***************************************************************************)
\* The ids a feedback request may name; one that no row has yet is unknown.
AnalyticsIds == 1..MaxRecords

\* The feedback values of the requests (FeedbackRequest.feedback: int).
FeedbackValues == {-1, 0, 1, 2}

\* logger.py lines 29-38: the row log_query adds, with its id.
log_query_row(id, q, source_type, t) ==
    [id |-> id, query_text |-> q, source_type |-> source_type,
     feedback |-> 0, created_at |-> t]

\* select(QueryAnalytics).where(QueryAnalytics.id == analytics_id)
SelectById(records, analytics_id) ==
    {r \in BagToSet(records) : r.id = analytics_id}

\* A chat request is served and logged; its row gets the next id.  The
\* insert and the commit of the request are one step: no other session
\* sees or waits for a row that is not committed.
LogIdentified(q, source_type) ==
    /\ BagCardinality(analytics) < MaxRecords
    /\ analytics' = analytics (+) OneRow(
          log_query_row(BagCardinality(analytics) + 1, q, source_type, now))
    /\ ret' = NoRet
    /\ UNCHANGED <<semantic_cache_enabled, table, nextId, now, ticks, calls>>

\* The open transaction of a session of S has sent the UPDATE of the
\* feedback of the analytics row id and holds the lock of the row.
RatedBySession(S, id) ==
    \E u \in S :
        /\ tx[u].pc = "commit"
        /\ tx[u].write = "feedback"
        /\ tx[u].id = id

\* logger.py lines 48-54, analytics.py lines 90 and 98-102: record_feedback
\* up to its flush.  The select by id returned the rows of found: none, and
\* the endpoint answers 404, or the record, to which the value is assigned.
\* The unit of work has an UPDATE to send if the value assigned is not the
\* value loaded.
RecordFeedback(s, analytics_id, found, feedback) ==
    LET record == CHOOSE r \in found : TRUE
        t == [NoTx EXCEPT !.op = "feedback", !.id = analytics_id,
                          !.feedback = feedback]
    IN /\ Begin(s)
       /\ SessionStep(s,
             IF found = {} THEN [t EXCEPT !.pc = "done", !.status = 404]
             ELSE [t EXCEPT !.pc = "flush", !.loaded = SetToBag(found),
                            !.write = IF record.feedback # feedback
                                      THEN "feedback" ELSE "none"])
       /\ UNCHANGED <<semantic_cache_enabled, table, nextId, now, ticks,
                      analytics, calls>>

\* analytics.py lines 73-90: POST /api/analytics/feedback.  A value other
\* than 1 and -1 is answered 400 before any statement is sent.
SubmitFeedback(s, analytics_id, feedback) ==
    IF feedback \in {1, -1}
    THEN RecordFeedback(s, analytics_id, SelectById(analytics, analytics_id),
                        feedback)
    ELSE /\ Begin(s)
         /\ SessionStep(s, [NoTx EXCEPT !.op = "feedback", !.pc = "done",
                                        !.id = analytics_id,
                                        !.feedback = feedback,
                                        !.status = 400])
         /\ UNCHANGED <<semantic_cache_enabled, table, nextId, now, ticks,
                        analytics, calls>>

\* logger.py line 55: the flush of record_feedback.  Its UPDATE, if it has
\* one to send, waits for the lock of the row.
FlushFeedback(s) ==
    LET t == tx[s]
    IN /\ t.op = "feedback"
       /\ t.pc = "flush"
       /\ t.write = "feedback" => ~RatedBySession(Sessions \ {s}, t.id)
       /\ SessionStep(s, [t EXCEPT !.pc = "commit"])
       /\ UNCHANGED <<semantic_cache_enabled, table, nextId, now, ticks,
                      served, analytics, calls>>

NextFeedback ==
    \/ \E q \in {<<"a">>, <<"b">>}, source_type \in {"cache", "rag"} :
          LogIdentified(q, source_type)
          /\ UNCHANGED <<learnVars, txVars, arg, val>>
    \/ \E s \in Sessions, analytics_id \in AnalyticsIds,
          feedback \in FeedbackValues :
          SubmitFeedback(s, analytics_id, feedback)
          /\ UNCHANGED <<learnVars, arg, val>>
    \/ \E s \in Sessions : FlushFeedback(s) /\ UNCHANGED <<learnVars, arg, val>>
    \/ \E s \in Sessions : Commit(s) /\ UNCHANGED <<learnVars, calls, arg, val>>
    \/ \E s \in Sessions : Answered(s) /\ UNCHANGED <<learnVars, otherVars>>

SpecFeedback == InitDefault /\ [][NextFeedback]_vars

(***************************************************************************)
(* SpecPipeline: the answer pipeline of _generate_and_cache_response,      *)
(* self_learner.py lines 234-278, next to that of the miss path of chat,   *)
(* for a query that has no entry.                                          *)
(***************************************************************************)
\* lines 243-254: the knowledge-base citations, in the order retrieved.
warm_rag_sources(documents) ==
    [k \in 1..Len(documents) |->
        [origin |-> "rag", n |-> k,
         relevance_score |-> Given(documents[k].score)]]

\* lines 256-268: the paper citations; no other target is consulted.
warm_mcp_sources(targets, env) ==
    LET papers == IF InTargets("arxiv", targets)
                  THEN search_results(env.arxiv, 900) ELSE <<>>
    IN [k \in 1..Len(papers) |->
          [origin |-> "mcp", n |-> k, relevance_score |-> Given(papers[k])]]

\* lines 237-275: the citations and the answer, for the router's result;
\* raise: an exception leaves the call.
warm_answer(router_result, env) ==
    LET query_type == router_result.query_type
        found == IF query_type \in {"rag", "hybrid"}
                 THEN retrieve_documents(env.retrieval)
                 ELSE [status |-> "ok", documents |-> <<>>]
        sources == warm_rag_sources(found.documents)
                   \o (IF query_type \in {"mcp", "hybrid"}
                       THEN warm_mcp_sources(router_result.mcp_targets, env)
                       ELSE <<>>)
        combined_context == sources # <<>>
        response_text == IF combined_context THEN "generated"
                         ELSE "no_information"
    IN IF found.status = "raise" \/ (combined_context /\ env.generate = "raise")
       THEN [status |-> "raise", response |-> "", sources |-> <<>>]
       ELSE [status |-> "ok", response |-> response_text,
             sources |-> sources]

\* The entry save_to_cache prepares for an answer when the query has no
\* entry (semantic_cache.py lines 133-164), NoRow if the pipeline raised.
NewEntry(query, answer, env) ==
    IF answer.status = "raise" THEN NoRow
    ELSE save_to_cache_row(NoRow, query, answer.response, answer.sources,
                           get_query_embedding(env.save_reply), 0, 1)

\* The same query, router result and replies of the collaborators given to
\* the miss path of chat and to pre-warm's pipeline.
Pipelines(query, router_reply) ==
    LET router_result == classify_query(KeywordsOf(query), router_reply).result
    IN /\ val = NoCall
       /\ \E env \in MissEnvs(query, router_result) :
             LET live == chat_answer(router_result, env)
                 warm == warm_answer(router_result, env)
             IN /\ arg' = [query |-> query, router_result |-> router_result,
                           env |-> env]
                /\ val' = [live |-> [status |-> live.status,
                                     row |-> NewEntry(query, live, env)],
                           warm |-> [status |-> warm.status,
                                     row |-> NewEntry(query, warm, env)]]

NextPipeline ==
    \E query \in {<<"a">>, <<"b">>}, router_reply \in ChatRouterReplies :
       Pipelines(query, router_reply)
       /\ UNCHANGED <<learnVars, cacheVars, txVars, analytics, calls>>

SpecPipeline == InitDefault /\ [][NextPipeline]_vars

(***************************************************************************)
(* The maintenance phases: services/learning/self_learner.py.              *)
(***************************************************************************)
\* lines 159-164: created_at < cutoff AND hit_count <= min_hit_count
Stale_below_min_hits(r, cutoff, min_hit_count) ==
    r.created_at < cutoff /\ r.hit_count < min_hit_count

Stale_by_age_alone(r, cutoff, min_hit_count) ==
    r.created_at < cutoff

Stale(r, cutoff, min_hit_count) ==
    r.created_at < cutoff /\ r.hit_count <= min_hit_count

\* lines 193-208: WHERE created_at >= since AND feedback = 1, GROUP BY
\* query_text, HAVING count(id) >= positive_threshold.  A text has a group
\* only if a row of feedback 1 has it, whatever the threshold.
PositiveTexts(records, t, positive_threshold) ==
    LET S == {r \in Recent(records, t - 30 * Day) : r.feedback = 1}
    IN {q \in TextsOf(S) :
           CountOf(records, S, q) >= positive_threshold}

\* lines 222: the new expiry.
extended_expires_at_unchanged(r, t, extension_days) == r.expires_at

extended_expires_at(r, t, extension_days) == t + extension_days * Day

\* The sequences that list every element of the set G once.
Listings(G) ==
    {f \in [1..Cardinality(G) -> G] :
        \A i, j \in 1..Cardinality(G) : i # j => f[i] # f[j]}

\* logger.py lines 131-170: the lists get_popular_queries may return.  Rows
\* with equal counts come in any order.
get_popular_queries(records, t, days, limit) ==
    LET S == Recent(records, t - days * Day)
        G == {[query |-> q, count |-> CountOf(records, S, q),
               positive_feedback |-> FeedbackOf(records, S, q, 1),
               negative_feedback |-> FeedbackOf(records, S, q, -1)] :
                 q \in TextsOf(S)}
    IN {Limit(f, limit) :
           f \in {g \in Listings(G) :
                     \A i, j \in 1..Len(g) :
                        i < j => g[i].count >= g[j].count}}

\* logger.py lines 200-239: the lists get_negative_feedback_queries may
\* return.
get_negative_feedback_queries(records, t, days, min_negative) ==
    LET S == Recent(records, t - days * Day)
        G == {[query |-> q, total_count |-> CountOf(records, S, q),
               negative_count |-> FeedbackOf(records, S, q, -1)] :
                 q \in {x \in TextsOf(S) :
                           FeedbackOf(records, S, x, -1) >= min_negative}}
    IN {g \in Listings(G) :
           \A i, j \in 1..Len(g) :
              i < j => g[i].negative_count >= g[j].negative_count}

\* What happens to the calls made for one query of a batch:
\*   "ok"               every call answers;
\*   "check_raises"     the database raises in get_cached_response;
\*   "generate_raises"  the router, the retrieval or the generation raises.
\* The Embedding Service answers throughout.
CheckEnvs == {"ok", "check_raises"}

GenerateEnvs == {"ok", "generate_raises"}

\* lines 234-279 and 281-335: the answers the two pipelines generate.
GeneratedAnswer == [response |-> "r1", sources |-> <<>>]

ImprovedAnswer == [response |-> "r2", sources |-> <<"s1">>]

\* lines 275 and 331: the answer the phase stores.
JobAnswer(op) == IF op = "improve" THEN ImprovedAnswer ELSE GeneratedAnswer

\* line 84: if cached
already_cached_never(cached) == FALSE

already_cached(cached) == cached.status = "hit"

(***************************************************************************)
(* A maintenance call, statement by statement.  The call runs in a session *)
(* of its own (routers/learning.py, Depends(get_db)) and gives way at      *)
(* every await, so each statement it sends is a step of its own, and the   *)
(* requests take their steps in between.  Its statements see the committed *)
(* rows and what its own open transaction wrote.  The awaits of the answer *)
(* pipeline send no statement, so the pipeline is part of the step that    *)
(* follows it.  A flush and the commit after it are two steps: between     *)
(* them the transaction holds the locks of what it flushed.  The           *)
(* statements of one flush are sent one after the other, each a step of    *)
(* its own that waits for the lock of its row while the transaction holds  *)
(* the locks of the statements sent before it.                             *)
(***************************************************************************)
\* A change of the unit of work: the row loaded, the row as the statement
\* leaves it and the vector save_to_cache assigned to a loaded row
\* (NoEmbedding if none was assigned).
RowWrite(kind, seen, row, query_embedding) ==
    [kind |-> kind, seen |-> seen, row |-> row,
     query_embedding |-> query_embedding]

\* The rows after the statements of W are applied: what the statements of
\* the transaction that holds W see, and what its commit leaves.
Applied(rows, W) ==
    {r \in rows : \A w \in W : w.kind \in RowWrites => w.row.id # r.id}
    \cup {w.row : w \in {x \in W : x.kind # "delete"}}

\* The statement of change w waits for a lock a request holds.
Blocked(w) ==
    IF w.kind = "insert"
    THEN \/ InsertedBySession(Sessions, w.row.query_hash)
         \/ \E r \in SelectByHash(table, w.row.query_hash) :
               LockedBySession(Sessions, r.id)
    ELSE LockedBySession(Sessions, w.seen.id)

\* The flush of change w on the rows the transaction sees: the exception it
\* raises, if any, and the statement sent.  An UPDATE of the unit of work
\* that finds its row gone raises StaleDataError; a DELETE or a hit-count
\* UPDATE that finds it gone passes.
FlushError(rows, w) ==
    IF w.kind = "insert" /\ UniqueViolation(rows, w.row)
    THEN "IntegrityError"
    ELSE IF w.kind = "update" /\ RowById(rows, w.seen.id).id = 0
    THEN "StaleDataError"
    ELSE "none"

Sent(rows, w) ==
    LET cur == RowById(rows, w.seen.id)
    IN IF w.kind = "insert" THEN {w}
       ELSE IF cur.id = 0 THEN {}
       ELSE IF w.kind = "update"
       THEN {[w EXCEPT !.row = OrmUpdate(cur, w.seen, w.row,
                                         w.query_embedding)]}
       ELSE IF w.kind = "increment"
       THEN {[w EXCEPT !.row = hit_count_plus_one(cur, w.seen)]}
       ELSE {[w EXCEPT !.row = cur]}

\* The statements held once those of W are sent as well: a later statement
\* on a row replaces the earlier one, and stays an insert if the
\* transaction inserted the row.
Held(held, W) ==
    LET ids == {w.row.id : w \in W}
        inserted == {w.row.id : w \in {x \in held : x.kind = "insert"}}
    IN {w \in held : w.row.id \notin ids}
       \cup {w \in W : w.row.id \notin inserted}
       \cup {[w EXCEPT !.kind = "insert"] :
                w \in {x \in W : x.row.id \in inserted /\ x.kind # "delete"}}

\* The flush of the unit of work of j sends the statement of change w,
\* on the rows the transaction sees: the exception raised, if any, and j
\* with the statement sent, holding its lock.
FlushErrors(j, w) == {FlushError(Applied(table, j.held), w)} \ {"none"}

Flush(j, w) ==
    [j EXCEPT !.dirty = @ \ {w},
              !.held = Held(@, Sent(Applied(table, j.held), w))]

\* The flush failed: the transaction is rolled back and the session is
\* left to raise PendingRollbackError.
RolledBack(j) ==
    [j EXCEPT !.dirty = {}, !.held = {}, !.failed = TRUE]

\* An exception leaves the phase.
Raises(j) == [RolledBack(j) EXCEPT !.pc = "return", !.status = "raise"]

\* The phase op begins in the session of j, with arguments p and the list
\* its first query returned.
Phase(j, op, p, items, pc) ==
    [j EXCEPT !.pc = pc, !.op = op, !.p = p, !.items = items, !.k = 1,
              !.log = <<>>, !.found = NoRow, !.status = "ok", !.done = 0,
              !.skipped = 0, !.errors = 0]

\* The maintenance call begins.
JobBegin ==
    /\ job.pc = "idle"
    /\ calls < MaxJobs
    /\ calls' = calls + 1

\* The call takes a step, which leaves it as j: the requests in flight are
\* no longer alone.
JobStep(j) ==
    /\ job' = j
    /\ tx' = [u \in Sessions |-> Disturbed(tx[u])]

\* The summary the phase of j returns (lines 97-102, 138-142, 176-180 and
\* 228-232), with its arguments and the list it worked on.
Summary(j, status) ==
    IF j.op = "pre_warm"
    THEN [op |-> j.op, days |-> j.p.days, min_count |-> j.p.min_count,
          limit |-> j.p.limit, popular |-> j.items, status |-> status,
          total_popular |-> Len(j.items), warmed |-> j.done,
          skipped |-> j.skipped, errors |-> j.errors, log |-> j.log,
          before |-> j.before]
    ELSE IF j.op = "improve"
    THEN [op |-> j.op, days |-> j.p.days, min_negative |-> j.p.min_negative,
          negative_queries |-> j.items, status |-> status,
          total_negative |-> Len(j.items), improved |-> j.done,
          errors |-> j.errors, log |-> j.log, before |-> j.before]
    ELSE IF j.op = "cleanup"
    THEN [op |-> j.op, max_age_days |-> j.p.max_age_days,
          min_hit_count |-> j.p.min_hit_count, status |-> status,
          deleted |-> j.done, before |-> j.before]
    ELSE [op |-> j.op, positive_threshold |-> j.p.positive_threshold,
          extension_days |-> j.p.extension_days, texts |-> j.items,
          status |-> status, extended |-> j.done, before |-> j.before]

\* lines 76-80: the first item from k on that pre-warm does not pass over.
NextQualifying_ignores_min_count(popular, k, min_count) == k

RECURSIVE NextQualifying(_, _, _)
NextQualifying(popular, k, min_count) ==
    IF k > Len(popular) \/ popular[k].count >= min_count THEN k
    ELSE NextQualifying(popular, k + 1, min_count)

\* The items the loop passes over.
Belows(n) == [i \in 1..n |-> "below"]

\* The loop has dealt with its item, which ended as what, and goes on to
\* its next item, or the phase returns.
NextItem(j, what) ==
    LET n == Len(j.items)
        k == IF j.op = "pre_warm"
             THEN NextQualifying(j.items, j.k + 1, j.p.min_count)
             ELSE j.k + 1
        passed == (IF k > n THEN n ELSE k - 1) - j.k
    IN [j EXCEPT !.k = k, !.found = NoRow,
                 !.log = Append(@, what) \o Belows(passed),
                 !.pc = IF k > n THEN "return"
                        ELSE IF j.op = "pre_warm" THEN "check"
                        ELSE "invalidate"]

\* lines 155-171: cleanup's select, and the deletes it marks.
CleanupStart(j, max_age_days, min_hit_count) ==
    LET cutoff == now - max_age_days * Day
        stale_caches == {r \in Applied(table, j.held) :
                            Stale(r, cutoff, min_hit_count)}
        phase == Phase(j, "cleanup",
                       [max_age_days |-> max_age_days,
                        min_hit_count |-> min_hit_count], <<>>,
                       IF stale_caches = {} THEN "return" ELSE "commit")
    IN IF j.failed THEN Raises(phase)
       ELSE [phase EXCEPT !.dirty = {RowWrite("delete", r, r, NoEmbedding) :
                                        r \in stale_caches},
                          !.done = Cardinality(stale_caches)]

CleanupSelect(max_age_days, min_hit_count) ==
    /\ JobBegin
    /\ JobStep(CleanupStart([NoJob EXCEPT !.before = table], max_age_days,
                            min_hit_count))
    /\ ret' = NoRet
    /\ UNCHANGED <<semantic_cache_enabled, table, nextId, now, ticks, served,
                   analytics>>

\* lines 174 and 226, and 216-218: a statement of the flush of what cleanup
\* or extend-TTL marked, sent by the commit and, before the select of
\* extend-TTL's next text, by the autoflush.  The flush sends its
\* statements in the order of the rows' primary keys, which are random
\* (uuid4, db_models.py): any order.  The statement waits for the lock a
\* request holds on its row, while the statements sent before it hold
\* theirs; no try block is around the flush.
JobFlush ==
    /\ job.pc \in {"select", "commit"}
    /\ \E w \in job.dirty :
          /\ ~Blocked(w)
          /\ JobStep(IF FlushErrors(job, w) # {} THEN Raises(job)
                     ELSE Flush(job, w))
    /\ ret' = NoRet
    /\ UNCHANGED <<semantic_cache_enabled, table, nextId, now, ticks, served,
                   analytics, calls>>

\* lines 174 and 226, 279 and 335: the COMMIT of cleanup, of extend-TTL and
\* of an item of pre-warm or improve, which makes what the transaction
\* holds visible and releases its locks.
JobCommit ==
    LET j == [job EXCEPT !.held = {}]
    IN /\ job.pc = "commit"
       /\ job.dirty = {}
       /\ table' = Applied(table, job.held)
       /\ JobStep(IF job.op = "improve"
                  THEN NextItem([j EXCEPT !.done = @ + 1], "improved")
                  ELSE IF job.op = "pre_warm"
                  THEN NextItem([j EXCEPT !.done = @ + 1], "warmed")
                  ELSE [j EXCEPT !.pc = "return"])
       /\ ret' = NoRet
       /\ UNCHANGED <<semantic_cache_enabled, nextId, now, ticks, served,
                      analytics, calls>>

\* lines 193-208: extend-TTL's analytics query; its rows come in any order.
ExtendBegin(positive_threshold, extension_days) ==
    \E texts \in Listings(PositiveTexts(analytics, now, positive_threshold)) :
       /\ JobBegin
       /\ JobStep(Phase([NoJob EXCEPT !.before = table], "extend",
                        [positive_threshold |-> positive_threshold,
                         extension_days |-> extension_days], texts,
                        IF texts = <<>> THEN "return" ELSE "select"))
       /\ ret' = NoRet
       /\ UNCHANGED <<semantic_cache_enabled, table, nextId, now, ticks,
                      served, analytics>>

\* lines 211-224: the select for one text, once the expiry set for the
\* text before is flushed, and the new expiry of the entry it finds.
ExtendSelect ==
    LET S == SelectByHash(Applied(table, job.held),
                          generate_query_hash(job.items[job.k]))
        cache == ScalarOneOrNone(S)
        last == job.k = Len(job.items)
        extended == IF cache.id # 0 THEN job.done + 1 ELSE job.done
    IN /\ job.pc = "select"
       /\ job.dirty = {}
       /\ JobStep(
             [job EXCEPT
                !.dirty =
                    IF cache.id # 0
                    THEN {RowWrite("update", cache,
                             [cache EXCEPT !.expires_at =
                                 extended_expires_at(cache, now,
                                    job.p.extension_days)],
                             NoEmbedding)}
                    ELSE {},
                !.done = extended,
                !.k = @ + 1,
                !.pc = IF ~last THEN "select"
                       ELSE IF extended > 0 THEN "commit"
                       ELSE "return"])
       /\ ret' = NoRet
       /\ UNCHANGED <<semantic_cache_enabled, table, nextId, now, ticks,
                      served, analytics, calls>>

\* lines 68-80: pre-warm's analytics query, and the items the loop passes
\* over before its first check.
PreWarmStart(j, days, min_count, limit, popular) ==
    LET k == NextQualifying(popular, 1, min_count)
        n == Len(popular)
    IN [Phase(j, "pre_warm",
               [days |-> days, min_count |-> min_count, limit |-> limit],
               popular, IF k > n THEN "return" ELSE "check")
          EXCEPT !.k = k, !.log = Belows(IF k > n THEN n ELSE k - 1)]

PreWarmBegin(days, min_count, limit) ==
    \E popular \in get_popular_queries(analytics, now, days, limit) :
       /\ JobBegin
       /\ JobStep(PreWarmStart([NoJob EXCEPT !.before = table], days,
                               min_count, limit, popular))
       /\ ret' = NoRet
       /\ UNCHANGED <<semantic_cache_enabled, table, nextId, now, ticks,
                      served, analytics>>

\* line 83, semantic_cache.py lines 60-99: the similarity search of the
\* presence check.  It is outside the try block of the loop, so its
\* exception, also that of a session whose flush failed, leaves the phase.
PreWarmSearch(row, env) ==
    LET q == job.items[job.k].query
        path == get_cached_response(semantic_cache_enabled, Embed(q), row)
    IN /\ job.pc = "check"
       /\ row \in SearchRows(Applied(table, job.held),
                             semantic_cache_enabled, Embed(q), now)
       /\ JobStep(IF job.failed \/ env = "check_raises" \/ path = "raise"
                  THEN Raises(job)
                  ELSE IF path = "hit"
                  THEN [job EXCEPT !.pc = "hit", !.found = row]
                  ELSE IF path = "miss" THEN [job EXCEPT !.pc = "save"]
                  ELSE [job EXCEPT !.pc = "exact"])
       /\ ret' = NoRet
       /\ UNCHANGED <<semantic_cache_enabled, table, nextId, now, ticks,
                      served, analytics, calls>>

\* semantic_cache.py lines 99-110, self_learner.py lines 83-86: the
\* hit-count UPDATE of a semantic hit, left in the open transaction; the
\* item is skipped.
PreWarmHit ==
    LET w == RowWrite("increment", job.found, job.found, NoEmbedding)
        j == [job EXCEPT
                !.held = Held(@, Sent(Applied(table, job.held), w))]
    IN /\ job.pc = "hit"
       /\ ~Blocked(w)
       /\ JobStep(IF already_cached(Hit(job.found, "semantic"))
                  THEN NextItem([j EXCEPT !.skipped = @ + 1], "skipped")
                  ELSE [j EXCEPT !.pc = "save"])
       /\ ret' = NoRet
       /\ UNCHANGED <<semantic_cache_enabled, table, nextId, now, ticks,
                      served, analytics, calls>>

\* semantic_cache.py lines 112-119, self_learner.py lines 83-86: the
\* exact-match select.  On a hit the item is skipped; on a miss the answer
\* is generated and save_to_cache is called.
PreWarmExact ==
    LET q == job.items[job.k].query
        cached == exact_match_get_cached_response(Applied(table, job.held),
                                                  q, now)
    IN /\ job.pc = "exact"
       /\ JobStep(IF already_cached(cached)
                  THEN NextItem([job EXCEPT !.skipped = @ + 1], "skipped")
                  ELSE [job EXCEPT !.pc = "save"])
       /\ ret' = NoRet
       /\ UNCHANGED <<semantic_cache_enabled, table, nextId, now, ticks,
                      served, analytics, calls>>

\* lines 115-126: improve's analytics query.
ImproveStart(j, days, min_negative, negative_queries) ==
    LET p == [days |-> days, min_negative |-> min_negative]
    IN IF j.failed THEN Raises(Phase(j, "improve", p, <<>>, "return"))
       ELSE Phase(j, "improve", p, negative_queries,
                  IF negative_queries = <<>> THEN "return"
                  ELSE "invalidate")

ImproveBegin(days, min_negative) ==
    \E negative_queries \in
          get_negative_feedback_queries(analytics, now, days, min_negative) :
       /\ JobBegin
       /\ JobStep(ImproveStart([NoJob EXCEPT !.before = table], days,
                               min_negative, negative_queries))
       /\ ret' = NoRet
       /\ UNCHANGED <<semantic_cache_enabled, table, nextId, now, ticks,
                      served, analytics>>

\* line 128, semantic_cache.py lines 172-178: the select of
\* invalidate_cache.  It is inside the try block of the loop: the exception
\* of a session whose flush failed is counted and the loop goes on.
ImproveInvalidate ==
    LET q == job.items[job.k].query
        out == invalidate_cache(Applied(table, job.held), q)
    IN /\ job.pc = "invalidate"
       /\ JobStep(IF job.failed \/ out.status = "raise"
                  THEN NextItem([job EXCEPT !.errors = @ + 1], "error")
                  ELSE IF out.status = "true"
                  THEN [job EXCEPT
                          !.pc = "unlink",
                          !.dirty = {RowWrite("delete", out.cache_entry,
                                              out.cache_entry,
                                              NoEmbedding)}]
                  ELSE [job EXCEPT !.pc = "save"])
       /\ ret' = NoRet
       /\ UNCHANGED <<semantic_cache_enabled, table, nextId, now, ticks,
                      served, analytics, calls>>

\* semantic_cache.py lines 180-181: the DELETE, left in the open
\* transaction while the answer is generated.
ImproveDelete ==
    /\ job.pc = "unlink"
    /\ \A w \in job.dirty : ~Blocked(w)
    /\ \E w \in job.dirty : JobStep([Flush(job, w) EXCEPT !.pc = "save"])
    /\ ret' = NoRet
    /\ UNCHANGED <<semantic_cache_enabled, table, nextId, now, ticks, served,
                   analytics, calls>>

\* self_learner.py lines 234-278 and 281-334, semantic_cache.py lines
\* 133-164: the answer pipeline, whose exception the loop catches and
\* counts (lines 93 and 133), then the select of save_to_cache and the row
\* it sets or adds.
JobSaveSelect(env) ==
    LET q == job.items[job.k].query
        S == SelectByHash(Applied(table, job.held), generate_query_hash(q))
        existing == ScalarOneOrNone(S)
        e == get_query_embedding(Embed(q))
        w == save_to_cache_row(existing, q, JobAnswer(job.op).response,
                               JobAnswer(job.op).sources, e, now, nextId)
    IN /\ job.pc = "save"
       /\ IF env = "generate_raises" \/ job.failed
          THEN /\ JobStep(NextItem([job EXCEPT !.errors = @ + 1], "error"))
               /\ UNCHANGED nextId
          ELSE /\ existing.id = 0 => nextId <= MaxIds
               /\ nextId' = IF existing.id = 0 THEN nextId + 1 ELSE nextId
               /\ JobStep([job EXCEPT
                             !.pc = "flush",
                             !.dirty = {RowWrite(IF existing.id # 0
                                                 THEN "update" ELSE "insert",
                                                 existing, w,
                                                 IF existing.id # 0 THEN e
                                                 ELSE NoEmbedding)}])
       /\ ret' = NoRet
       /\ UNCHANGED <<semantic_cache_enabled, table, now, ticks, served,
                      analytics, calls>>

\* semantic_cache.py line 166: the flush of save_to_cache, which leaves its
\* INSERT or UPDATE in the open transaction.  The exception of the flush is
\* caught by the loop (lines 93 and 133) and counted.
JobSaveFlush ==
    /\ job.pc = "flush"
    /\ \E w \in job.dirty :
          /\ ~Blocked(w)
          /\ JobStep(IF FlushErrors(job, w) # {}
                     THEN NextItem([RolledBack(job) EXCEPT !.errors = @ + 1],
                                   "error")
                     ELSE [Flush(job, w) EXCEPT !.pc = "commit"])
    /\ ret' = NoRet
    /\ UNCHANGED <<semantic_cache_enabled, table, nextId, now, ticks, served,
                   analytics, calls>>

\* routers/learning.py lines 105-180, db/neon.py lines 72-80: the endpoint
\* returns the summary and get_db commits; the commit of a session whose
\* flush failed raises, as does the phase that an exception left, and the
\* server answers 500.
JobReturn ==
    LET raised == job.status = "raise" \/ job.failed
    IN /\ job.pc = "return"
       /\ ~job.cycle
       /\ table' = IF raised THEN table ELSE Applied(table, job.held)
       /\ ret' = Summary(job, IF raised THEN "raise" ELSE "ok")
       /\ JobStep(NoJob)
       /\ UNCHANGED <<semantic_cache_enabled, nextId, now, ticks, served,
                      analytics, calls>>

(***************************************************************************)
(* SpecMaint: pre-warm and cleanup, called by their endpoints              *)
(* (routers/learning.py) with the arguments of the caller, over the cache  *)
(* they fill and the analytics log the chat requests write.  The calls a   *)
(* phase makes for an item answer or raise.  The requests that log take    *)
(* their steps between the statements of a phase; a phase reads the log in *)
(* its first statement only.  SpecRatings has the phases that read the     *)
(* ratings, SpecMaintTx the phases beside the cache calls of the requests. *)
(***************************************************************************)
\* The arguments the endpoints are called with.  The ages cleanup is given
\* are whole days away from every age an entry has when the clock is read,
\* so that no comparison of the model is between two readings of the clock
\* that the code takes moments apart.
WindowDays == {7}
MinCounts == {1, 2}
Limits == {1, 2}
MinNegatives == {1, 2}
MaxAgeDays == {1, 32}
MinHitCounts == {0}
PositiveThresholds == {1, 2}
ExtensionDays == {-1, 7}

\* Time passes, 31 days at a time.
MaintClockSteps == {31 * Day}

\* A chat request has logged its query (chat.py lines 231-239, logger.py
\* log_query).  The insert and the commit of the request are one step: no
\* other session sees or waits for a row that is not committed.
LogQuery(q) ==
    /\ BagCardinality(analytics) < MaxRecords
    /\ analytics' = log_query(analytics, q, "rag", now)
    /\ ret' = NoRet
    /\ UNCHANGED <<semantic_cache_enabled, table, nextId, now, ticks, calls>>

NextMaint ==
    \/ \E q \in Queries :
          LogQuery(q) /\ UNCHANGED <<learnVars, txVars, arg, val>>
    \/ \E d \in MaintClockSteps :
          Tick(d) /\ UNCHANGED <<learnVars, otherVars>>
    \/ \E days \in WindowDays, min_count \in MinCounts, limit \in Limits :
          PreWarmBegin(days, min_count, limit)
          /\ UNCHANGED <<learnVars, arg, val>>
    \/ \E max_age_days \in MaxAgeDays, min_hit_count \in MinHitCounts :
          CleanupSelect(max_age_days, min_hit_count)
          /\ UNCHANGED <<learnVars, arg, val>>
    \/ JobFlush /\ UNCHANGED <<learnVars, arg, val>>
    \/ JobCommit /\ UNCHANGED <<learnVars, arg, val>>
    \/ \E row \in table \cup {w.row : w \in job.held} \cup {NoRow},
          env \in CheckEnvs :
          PreWarmSearch(row, env) /\ UNCHANGED <<learnVars, arg, val>>
    \/ PreWarmHit /\ UNCHANGED <<learnVars, arg, val>>
    \/ PreWarmExact /\ UNCHANGED <<learnVars, arg, val>>
    \/ \E env \in GenerateEnvs :
          JobSaveSelect(env) /\ UNCHANGED <<learnVars, arg, val>>
    \/ JobSaveFlush /\ UNCHANGED <<learnVars, arg, val>>
    \/ JobReturn /\ UNCHANGED <<learnVars, arg, val>>

SpecMaint == InitDefault /\ [][NextMaint]_vars

(***************************************************************************)
(* SpecRatings: the phases that read the ratings, improve and extend-TTL,  *)
(* called by their endpoints over the entries improve stores, beside the   *)
(* chat requests that log and the feedback requests that rate, statement   *)
(* by statement.                                                           *)
(***************************************************************************)
\* The session of the user who rates the answers, one request at a time.
\* The rows of this log carry no id: the request names the row it rates,
\* and its analytics_id is left 0.
RatingSessions == {1}

\* The texts of the requests that are logged and rated.
RatedQueries == {<<"a">>, <<" ", "A">>}

NextRatings ==
    \/ \E q \in RatedQueries :
          LogQuery(q) /\ UNCHANGED <<learnVars, txVars, arg, val>>
    \/ \E s \in RatingSessions, r \in BagToSet(analytics), fb \in {-1, 1} :
          RecordFeedback(s, 0, {r}, fb) /\ UNCHANGED <<learnVars, arg, val>>
    \/ \E s \in RatingSessions :
          FlushFeedback(s) /\ UNCHANGED <<learnVars, arg, val>>
    \/ \E s \in RatingSessions :
          Commit(s) /\ UNCHANGED <<learnVars, calls, arg, val>>
    \/ \E s \in RatingSessions :
          Answered(s) /\ UNCHANGED <<learnVars, otherVars>>
    \/ \E d \in MaintClockSteps :
          Tick(d) /\ UNCHANGED <<learnVars, otherVars>>
    \/ \E days \in WindowDays, min_negative \in MinNegatives :
          ImproveBegin(days, min_negative)
          /\ UNCHANGED <<learnVars, arg, val>>
    \/ \E positive_threshold \in PositiveThresholds,
          extension_days \in ExtensionDays :
          ExtendBegin(positive_threshold, extension_days)
          /\ UNCHANGED <<learnVars, arg, val>>
    \/ JobFlush /\ UNCHANGED <<learnVars, arg, val>>
    \/ JobCommit /\ UNCHANGED <<learnVars, arg, val>>
    \/ ExtendSelect /\ UNCHANGED <<learnVars, arg, val>>
    \/ ImproveInvalidate /\ UNCHANGED <<learnVars, arg, val>>
    \/ ImproveDelete /\ UNCHANGED <<learnVars, arg, val>>
    \/ \E env \in GenerateEnvs :
          JobSaveSelect(env) /\ UNCHANGED <<learnVars, arg, val>>
    \/ JobSaveFlush /\ UNCHANGED <<learnVars, arg, val>>
    \/ JobReturn /\ UNCHANGED <<learnVars, arg, val>>

SpecRatings == InitDefault /\ [][NextRatings]_vars

(***************************************************************************)
(* SpecMaintTx: a maintenance call beside the cache calls of concurrent    *)
(* requests.  The collaborators answer.                                    *)
(*                                                                         *)
(* The behaviours begin where the cache holds nothing for the first query, *)
(* or its entry of 31 days ago, expired, or that entry stored again just   *)
(* now; the first query was asked twice just now and rated once up and     *)
(* once down, the other query was asked once.                              *)
(***************************************************************************)
MaintTxNow == 31 * Day

AgedRow ==
    save_to_cache_row(NoRow, <<"a">>, "r1", <<>>, Embed(<<"a">>), 0, 1)

RestoredRow ==
    save_to_cache_row(AgedRow, <<"a">>, "r1", <<>>, Embed(<<"a">>),
                      MaintTxNow, 1)

MaintTxTables == {{}, {AgedRow}, {RestoredRow}}

MaintTxRow(q, fb) ==
    [query_text |-> q, source_type |-> "rag", feedback |-> fb,
     created_at |-> MaintTxNow]

MaintTxLog ==
    record_feedback(
       record_feedback(
          log_query(log_query(log_query(EmptyBag, <<"a">>, "rag", MaintTxNow),
                              <<"a">>, "rag", MaintTxNow),
                    <<"b">>, "rag", MaintTxNow),
          MaintTxRow(<<"a">>, 0), 1),
       MaintTxRow(<<"a">>, 0), -1)

MaintTxInit ==
    /\ LearnIdle
    /\ semantic_cache_enabled = TRUE
    /\ table \in MaintTxTables
    /\ nextId = Cardinality(table) + 1
    /\ now = MaintTxNow
    /\ ticks = 0
    /\ ret = NoRet
    /\ TxIdle
    /\ analytics = MaintTxLog
    /\ calls = 0
    /\ arg = NoCall
    /\ val = NoCall

\* The requests that run beside the maintenance call, and what they ask.
MaintTxSessions == Sessions

MaintTxQueries == {<<"a">>}

MaintTxAnswers == {ImprovedAnswer}

NextMaintTx ==
    \/ \E s \in MaintTxSessions, q \in MaintTxQueries, a \in MaintTxAnswers :
          StoreSelect(s, q, a.response, a.sources, Embed(q))
          /\ UNCHANGED <<learnVars, otherVars>>
    \/ \E s \in MaintTxSessions, q \in MaintTxQueries :
          \E row \in table \cup {NoRow} :
             LookupSelect(s, q, Embed(q), row)
             /\ UNCHANGED <<learnVars, otherVars>>
    \/ \E s \in MaintTxSessions, q \in MaintTxQueries :
          InvalidateSelect(s, q) /\ UNCHANGED <<learnVars, otherVars>>
    \/ \E s \in MaintTxSessions :
          LookupExact(s) /\ UNCHANGED <<learnVars, otherVars>>
    \/ \E s \in MaintTxSessions :
          FlushInsert(s) /\ UNCHANGED <<learnVars, otherVars>>
    \/ \E s \in MaintTxSessions :
          FlushRowWrite(s) /\ UNCHANGED <<learnVars, otherVars>>
    \/ \E s \in MaintTxSessions :
          Commit(s) /\ UNCHANGED <<learnVars, calls, arg, val>>
    \/ \E s \in MaintTxSessions :
          Answered(s) /\ UNCHANGED <<learnVars, otherVars>>
    \/ CleanupSelect(30, 0) /\ UNCHANGED <<learnVars, arg, val>>
    \/ ExtendBegin(1, 7) /\ UNCHANGED <<learnVars, arg, val>>
    \/ PreWarmBegin(7, 1, 20) /\ UNCHANGED <<learnVars, arg, val>>
    \/ ImproveBegin(7, 1) /\ UNCHANGED <<learnVars, arg, val>>
    \/ JobFlush /\ UNCHANGED <<learnVars, arg, val>>
    \/ JobCommit /\ UNCHANGED <<learnVars, arg, val>>
    \/ ExtendSelect /\ UNCHANGED <<learnVars, arg, val>>
    \/ \E row \in table \cup {w.row : w \in job.held} \cup {NoRow} :
          PreWarmSearch(row, "ok") /\ UNCHANGED <<learnVars, arg, val>>
    \/ PreWarmHit /\ UNCHANGED <<learnVars, arg, val>>
    \/ PreWarmExact /\ UNCHANGED <<learnVars, arg, val>>
    \/ ImproveInvalidate /\ UNCHANGED <<learnVars, arg, val>>
    \/ ImproveDelete /\ UNCHANGED <<learnVars, arg, val>>
    \/ JobSaveSelect("ok") /\ UNCHANGED <<learnVars, arg, val>>
    \/ JobSaveFlush /\ UNCHANGED <<learnVars, arg, val>>
    \/ JobReturn /\ UNCHANGED <<learnVars, arg, val>>

SpecMaintTx == MaintTxInit /\ [][NextMaintTx]_vars

(***************************************************************************)
(* SpecCycle: run_learning_cycle, self_learner.py lines 30-54, phase after *)
(* phase in the one session the background task has                        *)
(* (routers/learning.py lines 74-84), over entries that a request stores   *)
(* and the analytics log.  What a phase leaves in the open transaction is  *)
(* committed by the next commit of the run; no commit follows the last     *)
(* phase in the code of the run, so what is open then is committed or not  *)
(* as the session is released.                                             *)
(***************************************************************************)
\* lines 44-45: pre-warm with its defaults (min_count 3, days 7, limit 20).
CycleBegin ==
    \E popular \in get_popular_queries(analytics, now, 7, 20) :
       /\ job.pc = "idle"
       /\ calls < MaxCycles
       /\ calls' = calls + 1
       /\ JobStep(PreWarmStart([NoJob EXCEPT !.before = table,
                                             !.cycle = TRUE],
                               7, 3, 20, popular))
       /\ ret' = NoRet
       /\ UNCHANGED <<semantic_cache_enabled, table, nextId, now, ticks,
                      served, analytics>>

\* The phase of j has returned its summary to the run.
PhaseDone(j) == [j EXCEPT !.phases = Append(@, Summary(j, j.status))]

\* lines 47-48: improve with its defaults (days 7, min_negative 2), after
\* pre-warm has returned.
CycleImprove ==
    \E negative_queries \in
          get_negative_feedback_queries(analytics, now, 7, 2) :
       /\ job.pc = "return"
       /\ job.cycle
       /\ job.op = "pre_warm"
       /\ job.status = "ok"
       /\ JobStep(ImproveStart(PhaseDone(job), 7, 2, negative_queries))
       /\ ret' = NoRet
       /\ UNCHANGED <<semantic_cache_enabled, table, nextId, now, ticks,
                      served, analytics, calls>>

\* lines 50-51: cleanup with its defaults (max_age_days 30, min_hit_count
\* 0), after improve has returned.
CycleCleanup ==
    /\ job.pc = "return"
    /\ job.cycle
    /\ job.op = "improve"
    /\ job.status = "ok"
    /\ JobStep(CleanupStart(PhaseDone(job), 30, 0))
    /\ ret' = NoRet
    /\ UNCHANGED <<semantic_cache_enabled, table, nextId, now, ticks, served,
                   analytics, calls>>

\* lines 53-54: what the run returns, given the summaries of its phases;
\* an exception of a phase leaves the run.
cycle_results(phases, before) ==
    LET n == Len(phases)
    IN [op |-> "cycle", status |-> phases[n].status,
        popular |-> phases[1].popular, pre_log |-> phases[1].log,
        warmed |-> phases[1].warmed,
        improved |-> IF n >= 2 THEN phases[2].improved ELSE 0,
        deleted |-> IF n >= 3 THEN phases[3].deleted ELSE 0,
        before |-> before]

\* The run returns, or an exception has left it (routers/learning.py lines
\* 77-84).
CycleReturn(committed) ==
    LET phases == PhaseDone(job).phases
    IN /\ job.pc = "return"
       /\ job.cycle
       /\ job.op = "cleanup" \/ job.status = "raise"
       /\ table' = IF committed /\ job.status = "ok" /\ ~job.failed
                   THEN Applied(table, job.held) ELSE table
       /\ ret' = cycle_results(phases, job.before)
       /\ JobStep(NoJob)
       /\ UNCHANGED <<semantic_cache_enabled, nextId, now, ticks, served,
                      analytics, calls>>

\* The request that stores entries, and what it asks.
CycleSessions == {1}

CycleQueries == {<<"a">>, <<"b">>}

NextCycle ==
    \/ \E s \in CycleSessions, q \in CycleQueries :
          StoreSelect(s, q, GeneratedAnswer.response, GeneratedAnswer.sources,
                      Embed(q))
          /\ UNCHANGED <<learnVars, otherVars>>
    \/ \E s \in CycleSessions :
          FlushInsert(s) /\ UNCHANGED <<learnVars, otherVars>>
    \/ \E s \in CycleSessions :
          FlushRowWrite(s) /\ UNCHANGED <<learnVars, otherVars>>
    \/ \E s \in CycleSessions :
          Commit(s) /\ UNCHANGED <<learnVars, calls, arg, val>>
    \/ \E s \in CycleSessions :
          Answered(s) /\ UNCHANGED <<learnVars, otherVars>>
    \/ \E q \in CycleQueries :
          LogQuery(q) /\ UNCHANGED <<learnVars, txVars, arg, val>>
    \/ \E s \in CycleSessions, r \in BagToSet(analytics) :
          RecordFeedback(s, 0, {r}, -1) /\ UNCHANGED <<learnVars, arg, val>>
    \/ \E s \in CycleSessions :
          FlushFeedback(s) /\ UNCHANGED <<learnVars, arg, val>>
    \/ \E d \in MaintClockSteps :
          Tick(d) /\ UNCHANGED <<learnVars, otherVars>>
    \/ CycleBegin /\ UNCHANGED <<learnVars, arg, val>>
    \/ CycleImprove /\ UNCHANGED <<learnVars, arg, val>>
    \/ CycleCleanup /\ UNCHANGED <<learnVars, arg, val>>
    \/ \E committed \in BOOLEAN :
          CycleReturn(committed) /\ UNCHANGED <<learnVars, arg, val>>
    \/ JobFlush /\ UNCHANGED <<learnVars, arg, val>>
    \/ JobCommit /\ UNCHANGED <<learnVars, arg, val>>
    \/ \E row \in table \cup {w.row : w \in job.held} \cup {NoRow},
          env \in CheckEnvs :
          PreWarmSearch(row, env) /\ UNCHANGED <<learnVars, arg, val>>
    \/ PreWarmHit /\ UNCHANGED <<learnVars, arg, val>>
    \/ PreWarmExact /\ UNCHANGED <<learnVars, arg, val>>
    \/ ImproveInvalidate /\ UNCHANGED <<learnVars, arg, val>>
    \/ ImproveDelete /\ UNCHANGED <<learnVars, arg, val>>
    \/ \E env \in GenerateEnvs :
          JobSaveSelect(env) /\ UNCHANGED <<learnVars, arg, val>>
    \/ JobSaveFlush /\ UNCHANGED <<learnVars, arg, val>>

SpecCycle == InitDefault /\ [][NextCycle]_vars

(***************************************************************************)
(* SpecLearn: the trigger endpoint and the background tasks it adds.       *)
(***************************************************************************)
NextLearn ==
    \/ \E i \in Triggers : Trigger(i) /\ UNCHANGED <<cacheVars, txVars, otherVars>>
    \/ \E i \in Triggers : TaskStart(i) /\ UNCHANGED <<cacheVars, txVars, otherVars>>
    \/ \E i \in Triggers : PhaseReturns(i) /\ UNCHANGED <<cacheVars, txVars, otherVars>>
    \/ \E i \in Triggers : CycleReturns(i) /\ UNCHANGED <<cacheVars, txVars, otherVars>>
    \/ \E i \in Triggers : CycleRaises(i) /\ UNCHANGED <<cacheVars, txVars, otherVars>>

SpecLearn == InitDefault /\ [][NextLearn]_vars

(***************************************************************************)
(* The claims about the running flag, checked under SpecLearn.             *)
(***************************************************************************)
\* C1 (as stated): at most one self-learning cycle is active at any time;
\* no reachable state has two cycle background tasks running at once.
C1_AtMostOneCycleActive ==
    Cardinality({i \in Triggers : Active(i)}) <= 1

\* C2: a trigger that arrives while the running flag is true is answered
\* 409 and schedules no cycle, and a trigger answered 409 never becomes a
\* scheduled or running cycle later.
C2_ConflictSchedulesNothing ==
    [][\A i \in Triggers :
          /\ (req[i].st = "new" /\ req'[i].st # "new" /\ is_running)
                => req'[i] = [st |-> "conflict", reply |-> "409"]
          /\ req[i].st = "conflict" => req'[i] = req[i]]_vars

\* A trigger was answered 409, the cycle that was running has ended, and the
\* rejected trigger has still scheduled nothing.
C2_Witness ==
    \E i, j \in Triggers :
        /\ req[i] = [st |-> "conflict", reply |-> "409"]
        /\ req[j].st = "done"
        /\ ~is_running
        /\ \A k \in Triggers : ~Active(k) /\ req[k].st # "scheduled"

\* C3: when a started cycle ends, by returning or by raising, is_running is
\* false and a trigger arriving then is accepted; the flag is never true
\* while no cycle is active.
C3_FlagReleased ==
    [][/\ \A i \in Triggers :
             (req[i].st \in PhaseSet /\ req'[i].st = "done")
                => /\ ~is_running'
                   /\ trigger_learning_cycle(is_running').reply = "started"
       /\ (\A i \in Triggers : req'[i].st \notin PhaseSet) => ~is_running'
      ]_vars

\* A cycle raised and ended, the flag is false, and a trigger is accepted
\* (scheduled) while no cycle is active.
C3_Witness ==
    \E i, j \in Triggers :
        /\ req[i].st = "done"
        /\ last_result = [kind |-> "error", of |-> i]
        /\ ~is_running
        /\ req[j].st = "scheduled"
        /\ \A k \in Triggers : ~Active(k)

(***************************************************************************)
(* The claims about concurrent cache requests, checked under SpecTx.       *)
(***************************************************************************)
\* C4 (as stated): two concurrent store calls for the same digest both
\* complete without error and leave exactly one entry for the digest.
C4_ConcurrentStoresBothSucceed ==
    \A s, t \in Sessions :
        (/\ s # t
         /\ tx[s].pc = "done" /\ tx[s].op = "store"
         /\ tx[t].pc = "done" /\ tx[t].op = "store"
         /\ tx[s].h = tx[t].h)
        => /\ tx[s].status = "ok"
           /\ tx[t].status = "ok"
           /\ Cardinality(SelectByHash(table, tx[s].h)) = 1

\* C5: hit-count increments are never lost.  In every step, a row that
\* stays in the table and is not overwritten by a store in that step has its
\* hitCount raised by exactly the number of semantic-hit lookups on it that
\* commit in that step (one or none), whatever the other requests in flight
\* read or wrote; so n committed hits leave hitCount at its initial value
\* plus n.
C5_NoLostHit ==
    [][\A r \in table : \A r2 \in table' :
          r2.id = r.id =>
             LET ends(s) == tx[s].pc = "commit" /\ tx'[s].pc = "done"
                 hits == {s \in Sessions :
                             /\ ends(s)
                             /\ tx[s].write = "increment"
                             /\ tx[s].seen.id = r.id}
                 stores == {s \in Sessions :
                               /\ ends(s)
                               /\ tx[s].write = "update"
                               /\ tx[s].seen.id = r.id}
             IN stores = {} =>
                   r2.hit_count = r.hit_count + Cardinality(hits)]_vars

\* Two lookups hit the same entry concurrently: one has committed, and the
\* UPDATE of the other, which had read the entry before that commit, leaves
\* hitCount two above what it read.
C5_Witness ==
    \E s, t \in Sessions :
        /\ s # t
        /\ tx[t].pc = "done" /\ tx[t].op = "lookup"
        /\ tx[t].via = "semantic"
        /\ tx[s].pc = "commit" /\ tx[s].write = "increment"
        /\ tx[s].row.hit_count = tx[s].seen.hit_count + 2
        /\ \E r \in table : r.id = tx[s].row.id
                            /\ r.hit_count = tx[s].seen.hit_count + 1

(***************************************************************************)
(* The claim about the unique digest, checked under SpecMaintTx, where the *)
(* store, lookup and invalidate calls of two sessions and the maintenance  *)
(* phases take their statements in turn.                                   *)
(***************************************************************************)
\* C6: in every reachable state of the cache store, after any sequence and
\* interleaving of store, lookup, invalidate and maintenance phases, there
\* is at most one entry per queryHash.
C6_OneEntryPerHash ==
    \A r1, r2 \in table : r1.query_hash = r2.query_hash => r1 = r2

\* A store that found no entry for its digest met the entry a pre-warm
\* phase inserted and committed meanwhile: the unique index refused the
\* second insert, and one entry holds the digest.
C6_Witness ==
    \E s \in Sessions :
        /\ tx[s].pc = "done" /\ tx[s].op = "store"
        /\ tx[s].via = "insert" /\ tx[s].status = "raise"
        /\ \E r \in table :
              /\ SelectByHash(table, tx[s].h) = {r}
              /\ r.response = GeneratedAnswer.response
              /\ r.created_at = now

(***************************************************************************)
(* The claims about single cache operations, checked under Spec.  Each is  *)
(* the contract of a call beside which no other session takes a step: the  *)
(* step is the one in which the call returns, ret' is the call with its    *)
(* query ret'.q, and table and now are the committed rows and the time the *)
(* call found.  What calls do to each other is the subject of C4, C5, C6.  *)
(***************************************************************************)
\* A request returns in this step.
Returns == \E s \in Sessions : tx[s].pc # "done" /\ tx'[s].pc = "done"

StoreStep == Returns /\ ret'.op = "store" /\ ret'.alone

LookupStep == Returns /\ ret'.op = "lookup" /\ ret'.alone

\* C7: store is an upsert by digest.  A store leaves exactly one entry for
\* the query's digest, holding the stored response and sources, expiring at
\* now + TTL, with hitCount 0; when the digest already had an entry, that
\* entry is overwritten (same id), no entry is added and no other entry
\* changes.  So storing the same (query, response, sources) twice yields one
\* entry with hitCount 0.
C7_StoreIsUpsert ==
    [][StoreStep =>
          LET old == SelectByHash(table, generate_query_hash(ret'.q))
              new == SelectByHash(table', generate_query_hash(ret'.q))
          IN /\ Cardinality(new) = 1
             /\ \A r \in new :
                   /\ r.response = ret'.response
                   /\ SourcesOf(r.sources) = ret'.sources
                   /\ r.expires_at = now + cache_ttl_hours
                   /\ r.hit_count = 0
             /\ table' \ new = table \ old
             /\ old # {} =>
                   /\ Cardinality(table') = Cardinality(table)
                   /\ {r.id : r \in new} = {r.id : r \in old}]_vars

\* A store has overwritten an entry that was created earlier and had been
\* stored with another response: the entry keeps its id and creation time,
\* has the new response, the new expiry and hitCount 0.
C7_Witness ==
    /\ ret.op = "store" /\ ret.via = "update" /\ ret.status = "ok"
    /\ ret.alone
    /\ \E r \in table :
          /\ r.id = ret.id
          /\ r.query_hash = generate_query_hash(ret.q)
          /\ r.created_at < now
          /\ r.expires_at = now + cache_ttl_hours
          /\ r.response = ret.response
          /\ r.hit_count = 0

\* similarity(q1, entry) >= threshold, for the embedding e of q1 and the
\* embedding stored with the entry.
SimilarEntry(r, e) ==
    /\ r.query_embedding # NoEmbedding
    /\ SimilarityAtLeastThreshold(r.query_embedding, e)

\* C8 (as stated): with semantic matching enabled and the query embedded,
\* if a cached entry has similarity >= threshold to q1 then lookup(q1)
\* returns a hit; if every cached entry has similarity < threshold and no
\* cached entry has q1's digest, lookup(q1) returns absent.
C8_SimilarityMonotonicity ==
    [][(LookupStep /\ ret'.embedded /\ semantic_cache_enabled) =>
          /\ (\E r \in table : SimilarEntry(r, Embed(ret'.q)))
                => ret'.status = "hit"
          /\ (/\ \A r \in table : ~SimilarEntry(r, Embed(ret'.q))
              /\ SelectByHash(table, generate_query_hash(ret'.q)) = {})
                => ret'.status = "miss"]_vars

\* C8 (amended): with semantic matching enabled and the query embedded, if
\* an unexpired cached entry has similarity >= threshold to q1 then
\* lookup(q1) returns a hit; if every cached entry has similarity <
\* threshold and no cached entry has q1's digest, lookup(q1) returns absent.
C8_SimilarityMonotonicityUnexpired ==
    [][(LookupStep /\ ret'.embedded /\ semantic_cache_enabled) =>
          /\ (\E r \in table : SimilarEntry(r, Embed(ret'.q))
                               /\ r.expires_at > now)
                => ret'.status = "hit"
          /\ (/\ \A r \in table : ~SimilarEntry(r, Embed(ret'.q))
              /\ SelectByHash(table, generate_query_hash(ret'.q)) = {})
                => ret'.status = "miss"]_vars

\* A lookup by a query of another digest than the entry's returned the
\* unexpired entry as a semantic hit and incremented its hitCount, while the
\* table also held an expired entry.
C8_Witness ==
    /\ semantic_cache_enabled
    /\ ret.alone
    /\ ret.op = "lookup" /\ ret.embedded
    /\ ret.status = "hit" /\ ret.via = "semantic"
    /\ \E r \in table :
          /\ r.id = ret.id
          /\ r.query_hash # generate_query_hash(ret.q)
          /\ r.hit_count > 0
          /\ r.expires_at > now
          /\ \E o \in table : o.id # r.id /\ o.expires_at <= now

\* C9: lookup never returns the response of an expired entry: the entry a
\* hit came from has expiresAt later than the time of the lookup, on the
\* semantic path and on the exact-match paths.
C9_NoExpiredHit ==
    [][(LookupStep /\ ret'.status = "hit") =>
          \E r \in table :
             /\ r.id = ret'.id
             /\ r.response = ret'.response
             /\ SourcesOf(r.sources) = ret'.sources
             /\ r.expires_at > now]_vars

\* A lookup returned a semantic hit from an unexpired entry of another
\* digest while the table held an expired entry with the lookup's own digest
\* and an embedding.
C9_Witness ==
    /\ ret.op = "lookup" /\ ret.status = "hit" /\ ret.via = "semantic"
    /\ ret.alone
    /\ \E r, o \in table :
          /\ r.id = ret.id /\ r.expires_at > now /\ r.hit_count > 0
          /\ o.query_hash = generate_query_hash(ret.q)
          /\ o.expires_at <= now
          /\ o.id # r.id
          /\ o.query_embedding # NoEmbedding

\* C10: a failure of the Embedding Service never makes a cache operation
\* fail.  A lookup whose embedding call raises returns what exact match by
\* digest gives (the unexpired entry with the query's digest, or absent) and
\* changes no entry; a store whose embedding call raises still writes the
\* entry (inserting or overwriting).
C10_EmbeddingFailureTolerated ==
    [][/\ (LookupStep /\ ~ret'.embedded) =>
             LET live == {r \in SelectByHash(table,
                                             generate_query_hash(ret'.q)) :
                             r.expires_at > now}
             IN /\ ret'.status \in {"hit", "miss"}
                /\ ret'.status = "hit" <=> live # {}
                /\ ret'.status = "hit" =>
                      \E r \in live :
                         /\ ret'.response = r.response
                         /\ ret'.sources = SourcesOf(r.sources)
                /\ table' = table
       /\ (StoreStep /\ ~ret'.embedded) =>
             /\ ret'.status = "ok"
             /\ \E r \in table' :
                   /\ r.query_hash = generate_query_hash(ret'.q)
                   /\ r.response = ret'.response
                   /\ SourcesOf(r.sources) = ret'.sources]_vars

\* With semantic matching enabled, an entry was stored while the embedding
\* call raised, and a lookup whose embedding call raised found it by exact
\* match.
C10_Witness ==
    /\ semantic_cache_enabled
    /\ ret.alone
    /\ ret.op = "lookup" /\ ~ret.embedded
    /\ ret.status = "hit" /\ ret.via = "exact"
    /\ \E r \in table :
          /\ r.id = ret.id
          /\ r.query_hash = generate_query_hash(ret.q)
          /\ r.query_embedding = NoEmbedding

\* C11: a stored entry is always reachable by its own text.  While an
\* entry is in the table and unexpired, a lookup by any query with the
\* entry's digest (the same normalized text) returns a hit; with semantic
\* matching disabled, with the embedding call failing, and with the query
\* embedded and no unexpired neighbor at or above the threshold, the hit is
\* that entry, found by exact match.
C11_ReachableByOwnText ==
    [][LookupStep =>
          \A r \in table :
             (/\ r.query_hash = generate_query_hash(ret'.q)
              /\ r.expires_at > now) =>
                /\ ret'.status = "hit"
                /\ (\/ ~semantic_cache_enabled
                    \/ ~ret'.embedded
                    \/ \A o \in table :
                          ~(SimilarEntry(o, Embed(ret'.q))
                            /\ o.expires_at > now)) =>
                      /\ ret'.via = "exact"
                      /\ ret'.id = r.id
                      /\ ret'.response = r.response]_vars

\* With semantic matching enabled and the query embedded, a lookup by
\* another spelling of the stored text found the entry by exact match: the
\* entry has an embedding, which is not similar to the lookup's.
C11_Witness ==
    /\ semantic_cache_enabled
    /\ ret.alone
    /\ ret.op = "lookup" /\ ret.embedded
    /\ ret.status = "hit" /\ ret.via = "exact"
    /\ \E r \in table :
          /\ r.id = ret.id
          /\ r.query_text # ret.q
          /\ r.query_hash = generate_query_hash(ret.q)
          /\ r.query_embedding # NoEmbedding
          /\ ~SimilarEntry(r, Embed(ret.q))

(***************************************************************************)
(* The claim about the digest, checked under SpecHash.                     *)
(***************************************************************************)
\* C12: the query digest depends only on the normalized text.  Two texts
\* that differ only in letter case, leading or trailing whitespace or the
\* amount of internal whitespace have the same digest, and normalization is
\* idempotent: the digest of the normalized text is the digest of the text,
\* and normalizing twice gives what normalizing once gives.
C12_DigestOfNormalizedText ==
    val # NoCall =>
       /\ val.v = val.q
       /\ val.vn = val.v
       /\ Normalize(Normalize(arg.v)) = Normalize(arg.v)

\* The digests were computed for a text and a longer variant of it that has
\* a capital where the text has none and a whitespace run of two inside.
C12_Witness ==
    /\ val # NoCall
    /\ Len(arg.v) > Len(arg.q)
    /\ \A i \in 1..Len(arg.q) : arg.q[i] # "A"
    /\ \E i \in 1..Len(arg.v) : arg.v[i] = "A"
    /\ \E i \in 2..(Len(arg.v) - 2) :
          /\ arg.v[i] \in Whitespace
          /\ arg.v[i + 1] \in Whitespace
          /\ arg.v[i - 1] \notin Whitespace
          /\ arg.v[i + 2] \notin Whitespace
    /\ val.v = val.q

(***************************************************************************)
(* The claims about the maintenance phases, checked under SpecMaint.  The  *)
(* step is the one in which the endpoint's call returns; ret' is the call  *)
(* with its summary, ret'.before the cache the call found and table' the   *)
(* cache it leaves; the clock is as the call found it.  The log is read by *)
(* the first statement of the call, and what a claim says of the batch is  *)
(* checked in that step, against the log as it is then: the requests log   *)
(* and rate while the call runs.  The claims about improve and extend-TTL  *)
(* are checked under SpecRatings.                                          *)
(***************************************************************************)
\* The maintenance call returns in this step.
JobReturns == job.pc = "return" /\ job'.pc = "idle"

\* The endpoint's call of phase op sends its first statement in this step.
JobBegins(op) == job.pc = "idle" /\ job'.op = op

CleanupStep == JobReturns /\ ret'.op = "cleanup"

ExtendStep == JobReturns /\ ret'.op = "extend"

PreWarmStep == JobReturns /\ ret'.op = "pre_warm"

ImproveStep == JobReturns /\ ret'.op = "improve"

\* The age of an entry, in hours.
Age(r) == now - r.created_at

\* C13: the TTL invariant.  In every reachable state every cache entry has
\* expires_at > created_at, whatever stores, TTL extensions (with any
\* extension_days the endpoint accepts) and other cache operations came
\* before.
C13_ExpiresAfterCreated ==
    \A r \in table : r.expires_at > r.created_at

\* C14: cleanup completeness.  When cleanup(max_age_days = D,
\* min_hit_count = H) returns, no entry that had age > D and hit_count <= H
\* when the phase began is in the table, and the reported deleted count is
\* the number of entries removed.
C14_CleanupCompleteness ==
    [][CleanupStep =>
          /\ \A r \in ret'.before :
                (/\ Age(r) > ret'.max_age_days * Day
                 /\ r.hit_count <= ret'.min_hit_count) =>
                   \A o \in table' : o.id # r.id
          /\ ret'.deleted = Cardinality(ret'.before \ table')]_vars

\* A cleanup has deleted at least one entry.
C14_Witness ==
    /\ ret.op = "cleanup"
    /\ ret.deleted > 0

\* C15: the frame of cleanup.  cleanup(D, H) leaves every entry that has
\* age <= D or hit_count > H as it was (an entry older than D with more
\* than H hits is not deleted), and every entry in the table afterwards is
\* an entry of the table before, with every field unchanged.
C15_CleanupFrame ==
    [][CleanupStep =>
          /\ \A r \in ret'.before :
                (\/ Age(r) <= ret'.max_age_days * Day
                 \/ r.hit_count > ret'.min_hit_count) => r \in table'
          /\ table' \subseteq ret'.before]_vars

\* After a cleanup the table holds an entry older than max_age_days that
\* has more than min_hit_count hits.
C15_Witness ==
    /\ ret.op = "cleanup"
    /\ \E r \in table :
          /\ Age(r) > ret.max_age_days * Day
          /\ r.hit_count > ret.min_hit_count

\* C16: the effect of extend-TTL.  After
\* extend-TTL(positive_threshold = P, extension_days = E) every cache entry
\* whose digest is the digest of a query text that has at least P analytics
\* rows of positive feedback in the last 30 days has
\* expires_at = now + E days and is otherwise as before, and every other
\* entry is unchanged; no entry is added or removed.
C16_ExtendEffect ==
    [][/\ JobBegins("extend") =>
             {job'.items[k] : k \in 1..Len(job'.items)} =
                {q \in Queries :
                    FeedbackOf(analytics, Recent(analytics, now - 30 * Day),
                               q, 1) >= job'.p.positive_threshold}
       /\ ExtendStep =>
             LET liked == {ret'.texts[k] : k \in 1..Len(ret'.texts)}
                 after(r) ==
                    IF \E q \in liked : generate_query_hash(q) = r.query_hash
                    THEN [r EXCEPT !.expires_at =
                             now + ret'.extension_days * Day]
                    ELSE r
             IN table' = {after(r) : r \in ret'.before}]_vars

\* An extension has moved the expiry of an entry whose text is another
\* spelling of the liked query text, and has left another entry alone.
C16_Witness ==
    /\ ret.op = "extend"
    /\ ret.extension_days > 0
    /\ \E r \in table :
          /\ r.expires_at = now + ret.extension_days * Day
          /\ r.expires_at # r.created_at + cache_ttl_hours
          /\ \E k \in 1..Len(ret.texts) :
                /\ generate_query_hash(ret.texts[k]) = r.query_hash
                /\ ret.texts[k] # r.query_text

\* How many items of a batch ended as what.
Ended(log, what) == Cardinality({k \in 1..Len(log) : log[k] = what})

\* The items of the list pre-warm fetched that have count >= min_count.
Qualifying(r) ==
    {k \in 1..Len(r.popular) : r.popular[k].count >= r.min_count}

\* How often the text q was asked in the last days days.
Asked(days, q) == CountOf(analytics, Recent(analytics, now - days * Day), q)

\* C17: pre-warm never generates or stores an answer for a query whose
\* count in the window is below min_count: the loop passes over it, it is
\* counted neither as warmed nor as an error, and a batch of such queries
\* leaves the cache as it was.  The batch is at most `limit` queries, each
\* with its count in the window, in decreasing order of count, and no query
\* left out was asked more often than one taken.
C17_PreWarmBelowMinCount ==
    [][/\ JobBegins("pre_warm") =>
             LET popular == job'.items
                 days == job'.p.days
                 limit == job'.p.limit
                 n == Len(popular)
             IN /\ n <= limit
                /\ \A k \in 1..n :
                      /\ popular[k].count = Asked(days, popular[k].query)
                      /\ popular[k].count > 0
                      /\ \A j \in 1..n :
                            /\ k < j => popular[k].count >= popular[j].count
                            /\ k # j => popular[k].query # popular[j].query
                /\ \A q \in Queries :
                      (\A k \in 1..n : popular[k].query # q) =>
                         \/ Asked(days, q) = 0
                         \/ /\ n = limit
                            /\ \A k \in 1..n :
                                  Asked(days, q) <= popular[k].count
       /\ PreWarmStep =>
             LET r == ret'
             IN /\ \A k \in 1..Len(r.log) :
                      r.popular[k].count < r.min_count => r.log[k] = "below"
                /\ r.warmed = Ended(r.log, "warmed")
                /\ r.errors = Ended(r.log, "error")
                /\ Qualifying(r) = {} => table' = r.before]_vars

\* A pre-warm fetched a query asked often enough, for which it stored an
\* answer, and after it a query asked less than min_count times.
C17_Witness ==
    /\ ret.op = "pre_warm"
    /\ ret.status = "ok"
    /\ Len(ret.popular) = 2
    /\ ret.popular[1].count >= ret.min_count
    /\ ret.popular[2].count < ret.min_count
    /\ ret.log = <<"warmed", "below">>
    /\ ret.warmed = 1 /\ ret.errors = 0 /\ ret.skipped = 0
    /\ Cardinality(table) = 1

\* An unexpired row of rows that a lookup of q returns: the row with q's
\* digest, or a row whose stored embedding is similar to q's.
Present(rows, q) ==
    \E row \in rows :
       /\ row.expires_at > now
       /\ \/ row.query_hash = generate_query_hash(q)
          \/ SimilarEntry(row, Embed(q))

\* C18 (as stated): pre-warm skips the qualifying queries whose lookup hits
\* and stores an answer for the others; when it returns, every fetched
\* query with count >= min_count that was not counted as an error has a
\* cache entry for its digest, and warmed + skipped + errors is the number
\* of qualifying queries.
C18_PreWarmEntryForEachDigest ==
    [][(PreWarmStep /\ ret'.status = "ok") =>
          LET r == ret'
          IN /\ \A k \in Qualifying(r) :
                   r.log[k] # "error" =>
                      \E row \in table' :
                         row.query_hash =
                            generate_query_hash(r.popular[k].query)
             /\ r.warmed + r.skipped + r.errors =
                   Cardinality(Qualifying(r))]_vars

\* C18 (amended): a qualifying query is skipped exactly when its lookup
\* hits when its turn comes, that is when the cache held an unexpired entry
\* with its digest or with a similar embedding before the phase, or an
\* earlier query of the batch was warmed and has its digest or a similar
\* embedding; otherwise an answer is generated for it.  When pre-warm
\* returns, every warmed query has an entry for its digest written in the
\* phase, every skipped query has an unexpired entry its lookup returns
\* (its own, or that of a similar query), and
\* warmed + skipped + errors is the number of qualifying queries.
C18_PreWarmSkipsWhatLookupHits ==
    [][PreWarmStep =>
          LET r == ret'
              text(k) == r.popular[k].query
              WarmedBefore(k) ==
                 \E j \in 1..(k - 1) :
                    /\ r.log[j] = "warmed"
                    /\ \/ generate_query_hash(text(j)) =
                             generate_query_hash(text(k))
                       \/ SimilarityAtLeastThreshold(Embed(text(j)),
                                                     Embed(text(k)))
          IN /\ \A k \in Qualifying(r) \cap 1..Len(r.log) :
                   /\ r.log[k] \in {"skipped", "warmed", "error"}
                   /\ r.log[k] = "skipped" <=>
                         (Present(r.before, text(k)) \/ WarmedBefore(k))
             /\ r.status = "ok" =>
                   /\ Len(r.log) = Len(r.popular)
                   /\ r.skipped = Ended(r.log, "skipped")
                   /\ r.warmed + r.skipped + r.errors =
                         Cardinality(Qualifying(r))
                   /\ \A k \in Qualifying(r) :
                         /\ r.log[k] = "warmed" =>
                               \E row \in table' :
                                  /\ row.query_hash =
                                        generate_query_hash(text(k))
                                  /\ row.response = GeneratedAnswer.response
                                  /\ row.expires_at = now + cache_ttl_hours
                         /\ r.log[k] = "skipped" =>
                               Present(table', text(k))]_vars

\* A pre-warm stored an answer for its first query and skipped its second,
\* whose lookup returned the first one's entry: the second query has no
\* entry for its own digest.
C18_Witness ==
    /\ ret.op = "pre_warm"
    /\ ret.status = "ok"
    /\ ret.log = <<"warmed", "skipped">>
    /\ Present(table, ret.popular[2].query)
    /\ \A row \in table :
          row.query_hash # generate_query_hash(ret.popular[2].query)

\* How many negative ratings the text q got in the last days days.
Disliked(days, q) ==
    FeedbackOf(analytics, Recent(analytics, now - days * Day), q, -1)

\* C19 (as stated): improve regenerates every badly rated answer.  The
\* batch is exactly the query texts with at least min_negative negative
\* ratings in the window; for each the phase first invalidates the entry of
\* its digest and
\* then stores the regenerated answer, so that when the phase returns every
\* query processed without error has an entry for its digest that was
\* inserted during the phase: created now, with hit_count 0, the
\* regenerated answer and a full time to live.
C19_ImproveRegenerates ==
    [][/\ JobBegins("improve") =>
             LET negative_queries == job'.items
                 n == Len(negative_queries)
             IN /\ \A q \in Queries :
                      Disliked(job'.p.days, q) >= job'.p.min_negative <=>
                         \E k \in 1..n : negative_queries[k].query = q
                /\ \A k \in 1..n :
                      negative_queries[k].negative_count =
                         Disliked(job'.p.days, negative_queries[k].query)
       /\ ImproveStep =>
             LET r == ret'
                 n == Len(r.negative_queries)
                 text(k) == r.negative_queries[k].query
             IN /\ r.status = "ok"
                /\ Len(r.log) = n
                /\ r.total_negative = n
                /\ r.improved = Ended(r.log, "improved")
                /\ r.improved + r.errors = n
                /\ \A k \in 1..n :
                      r.log[k] = "improved" =>
                         \E row \in table' :
                            /\ row.query_hash = generate_query_hash(text(k))
                            /\ row.hit_count = 0
                            /\ row.created_at = now
                            /\ row.expires_at = now + cache_ttl_hours
                            /\ row.response = ImprovedAnswer.response
                            /\ row.sources =
                                  SourcesColumn(ImprovedAnswer.sources)]_vars

\* C20: per-item failure isolation in pre-warm and improve.  When the
\* processing of one query fails (the cache check, the retrieval, the
\* generation or the store raises) the failure is counted in the phase's
\* errors, every later query of the batch is still processed, and the
\* phase returns its summary.
C20_FailureIsolation ==
    [][(PreWarmStep \/ ImproveStep) =>
          LET r == ret'
              n == IF r.op = "pre_warm" THEN Len(r.popular)
                   ELSE Len(r.negative_queries)
          IN /\ r.status = "ok"
             /\ Len(r.log) = n
             /\ r.errors = Ended(r.log, "error")]_vars

(***************************************************************************)
(* The claims about the phases of a cycle, checked under SpecLearn.        *)
(***************************************************************************)
\* The four phases of a full cycle, in their order.
FourPhases ==
    <<"pre_warming", "response_improvement", "cache_cleanup", "ttl_extension">>

\* C21: a full cycle runs the four phases in the order pre-warm, improve
\* negative-feedback, cleanup, extend-TTL, each once: a task begins with
\* the first, each phase that returns is followed by the next, and the
\* cycle's result (the four summaries and the two timestamps) is stored
\* only when the fourth has returned.
C21_FourPhasesInOrder ==
    [][\A i \in Triggers :
          /\ (req[i].st = "scheduled" /\ req'[i].st # "scheduled") =>
                req'[i].st = FourPhases[1]
          /\ \A k \in 1..Len(FourPhases) :
                (req[i].st = FourPhases[k] /\ req'[i].st # req[i].st) =>
                   \/ k < Len(FourPhases) /\ req'[i].st = FourPhases[k + 1]
                   \/ /\ req'[i].st = "done"
                      /\ last_result' = [kind |-> "result", of |-> i] =>
                            k = Len(FourPhases)]_vars

\* C22: phase isolation within a cycle.  If one phase of a cycle raises,
\* every later phase of the cycle is still executed: a cycle ends only
\* when its last phase has begun.
C22_PhaseIsolation ==
    [][\A i \in Triggers :
          (Active(i) /\ req'[i].st = "done") =>
             req[i].st = Phases[Len(Phases)]]_vars

(***************************************************************************)
(* The claims about the router, checked under SpecRouter.                  *)
(***************************************************************************)
\* The LLM tier failed: the call raised or timed out, the reply is not
\* JSON, a field is null or ill-typed, or the query type is not one of the
\* three.
LLMTierFailed ==
    /\ val.llm_calls = 1
    /\ \/ arg.reply.kind \in {"raise", "unparsable"}
       \/ /\ arg.reply.kind = "json"
          /\ \/ Invalid \in {arg.reply.query_type, arg.reply.confidence,
                              arg.reply.reasoning, arg.reply.mcp_targets}
             \/ /\ arg.reply.query_type # Absent
                /\ arg.reply.query_type.v \notin QueryTypes

\* C23: classify never fails outward.  For every query and every behaviour
\* of the Generation Service classify returns a RouterResult, with one of
\* the three query types; when the LLM tier fails the result is
\* knowledge-base ("rag") with confidence 0.5 and no targets.
C23_ClassifyNeverFails ==
    val # NoCall =>
       /\ val.result.query_type \in QueryTypes
       /\ LLMTierFailed =>
             /\ val.result.query_type = "rag"
             /\ val.result.confidence = 50
             /\ val.result.mcp_targets = <<>>

\* The Generation Service replied with a query type that does not exist
\* and classify returned the fallback.
C23_Witness ==
    /\ val # NoCall
    /\ val.llm_calls = 1
    /\ arg.reply.kind = "json"
    /\ arg.reply.query_type = Given("web")
    /\ arg.reply.confidence = Given(90)
    /\ val.result.query_type = "rag"
    /\ val.result.confidence = 50

\* C24: the decision table of the rule tier, for every combination of the
\* keyword flags.  Recency and conceptual gives "hybrid" with the paper
\* target; otherwise recency or directed search gives "mcp" with the paper
\* target if a paper keyword is present, the model target if a model
\* keyword is present, and the paper target alone if neither is; otherwise
\* conceptual gives "rag" with no targets; each with confidence 0.85 and
\* without a call of the Generation Service, which is called only when no
\* flag is set.
C24_RuleTierTable ==
    val # NoCall =>
       LET text == query_lower(arg.q)
           recency == \E kw \in time_keywords : Contains(kw, text)
           conceptual == \E kw \in concept_keywords : Contains(kw, text)
           directed == \E kw \in search_keywords : Contains(kw, text)
           paper == \E kw \in paper_keywords : Contains(kw, text)
           model == \E kw \in model_keywords : Contains(kw, text)
           r == val.result
       IN /\ val.llm_calls = 0 <=> (recency \/ conceptual \/ directed)
          /\ val.llm_calls = 0 => r.confidence = 85
          /\ (recency /\ conceptual) =>
                r.query_type = "hybrid" /\ r.mcp_targets = <<"arxiv">>
          /\ (~(recency /\ conceptual) /\ (recency \/ directed)) =>
                /\ r.query_type = "mcp"
                /\ (paper /\ model) => r.mcp_targets = <<"arxiv", "huggingface">>
                /\ (paper /\ ~model) => r.mcp_targets = <<"arxiv">>
                /\ (~paper /\ model) => r.mcp_targets = <<"huggingface">>
                /\ (~paper /\ ~model) => r.mcp_targets = <<"arxiv">>
          /\ (conceptual /\ ~recency /\ ~directed) =>
                r.query_type = "rag" /\ r.mcp_targets = <<>>

\* A directed search with neither a paper nor a model keyword was sent to
\* the paper target by the rule tier.
C24_Witness ==
    /\ val # NoCall
    /\ arg.q = "chaja hi"
    /\ val.llm_calls = 0
    /\ val.result.query_type = "mcp"
    /\ val.result.mcp_targets = <<"arxiv">>

\* C25: every RouterResult classify returns, from the rule tier, the LLM
\* tier or the failure fallback, has its confidence within [0, 1].
C25_ConfidenceInRange ==
    val # NoCall =>
       (val.result.confidence >= 0 /\ val.result.confidence <= 100)

\* C26: every RouterResult classify returns whose query type is
\* knowledge-base ("rag") has no targets, whichever tier produced it.
C26_KnowledgeBaseNoTargets ==
    val # NoCall =>
       (val.result.query_type = "rag" => val.result.mcp_targets = <<>>)

(***************************************************************************)
(* The claims about the merging of the citations, checked under SpecMerge. *)
(***************************************************************************)
\* The score of a returned citation.
ScoreOf(src) == src.relevance_score.v

\* src came before other in the input: live-source citations before
\* knowledge-base ones, each list in its own order.
InputBefore(src, other) ==
    \/ src.origin = "mcp" /\ other.origin = "rag"
    \/ src.origin = other.origin /\ src.n < other.n

\* C27: merge returns at most 10 citations, sorted by non-increasing score,
\* for every pair of input lists and every query type; citations with
\* equal scores keep their input order, live-source citations before
\* knowledge-base ones and each list in its original order.
C27_MergeSortedTopTen ==
    val # NoCall =>
       /\ Len(val.sources) <= 10
       /\ \A i, j \in 1..Len(val.sources) :
             i < j =>
                /\ ScoreOf(val.sources[i]) >= ScoreOf(val.sources[j])
                /\ ScoreOf(val.sources[i]) = ScoreOf(val.sources[j])
                      => InputBefore(val.sources[i], val.sources[j])

\* Eleven citations came in, ten came out, and among them a live-source
\* citation and a knowledge-base one have the same score.
C27_Witness ==
    /\ val # NoCall
    /\ Len(arg.mcp_sources) + Len(arg.rag_sources) > 10
    /\ Len(val.sources) = 10
    /\ \E i \in 1..9 :
          /\ val.sources[i].origin = "mcp"
          /\ val.sources[i + 1].origin = "rag"
          /\ ScoreOf(val.sources[i]) = ScoreOf(val.sources[i + 1])

\* The citation as it came in.
InputOf(src) ==
    IF src.origin = "mcp" THEN arg.mcp_sources[src.n]
    ELSE arg.rag_sources[src.n]

\* The score a citation came with, or the baseline of its source.
BaseScore(src) ==
    IF InputOf(src).relevance_score # Absent
    THEN InputOf(src).relevance_score.v
    ELSE IF src.origin = "mcp" THEN 800 ELSE 700

\* C28: the scoring of merge.  A citation without a score gets the
\* baseline of its source (0.8 live-source, 0.7 knowledge-base); the score
\* is multiplied by 1.1 for live-source citations only when the query type
\* is live-source and for knowledge-base citations only when the query
\* type is knowledge-base, and never when it is both; every returned score
\* is at most 1.0.
C28_MergeScoring ==
    val # NoCall =>
       \A i \in 1..Len(val.sources) :
          LET src == val.sources[i]
              base == BaseScore(src)
              boosted == (base * 11) \div 10
          IN /\ ScoreOf(src) <= 1000
             /\ ScoreOf(src) =
                   IF src.origin # arg.query_type THEN base
                   ELSE IF boosted > 1000 THEN 1000 ELSE boosted

\* A knowledge-base query: a knowledge-base citation that came with 0.95
\* is returned with 1.0, one that came without a score with 0.77, and a
\* live-source citation that came without a score with 0.8.
C28_Witness ==
    /\ val # NoCall
    /\ arg.query_type = "rag"
    /\ \E i, j, k \in 1..Len(val.sources) :
          /\ val.sources[i].origin = "rag"
          /\ InputOf(val.sources[i]).relevance_score = Given(950)
          /\ ScoreOf(val.sources[i]) = 1000
          /\ val.sources[j].origin = "rag"
          /\ InputOf(val.sources[j]).relevance_score = Absent
          /\ ScoreOf(val.sources[j]) = 770
          /\ val.sources[k].origin = "mcp"
          /\ InputOf(val.sources[k]).relevance_score = Absent
          /\ ScoreOf(val.sources[k]) = 800

(***************************************************************************)
(* The claims about the chat endpoint, checked under SpecChat.             *)
(***************************************************************************)
\* The analytics row of a served request: sourceType "cache" for a hit, the
\* router's query type for a miss.
RecordOf(r, t) ==
    [query_text |-> Strip(r.request),
     source_type |-> IF r.cached THEN "cache" ELSE r.query_type,
     feedback |-> 0, created_at |-> t]

\* C29: every chat request that is served appends exactly one analytics
\* record, with sourceType cache when the answer came from a cache hit and
\* the router's query type when it came from a miss; a rejected (empty)
\* query appends none.
C29_OneRecordPerServedRequest ==
    [][ret'.op = "chat" =>
          /\ ret'.status = 200 =>
                analytics' = analytics (+) OneRow(RecordOf(ret', now))
          /\ Strip(ret'.request) = <<>> =>
                /\ ret'.status = 400
                /\ analytics' = analytics]_vars

\* A miss that the router typed "hybrid" was served and logged, and then a
\* request was served from the cache and logged.
C29_Witness ==
    /\ ret.op = "chat"
    /\ ret.status = 200
    /\ ret.cached
    /\ BagCardinality(analytics) = 2
    /\ \E r \in BagToSet(analytics) : r.source_type = "cache"
    /\ \E r \in BagToSet(analytics) : r.source_type = "hybrid"

\* C30: a failure or a timeout of an external collaborator (Embedding
\* Service, Generation Service, Knowledge Store, Live-Source Clients)
\* during a chat request for a non-empty query is never surfaced as an
\* error: the request completes with an answer.  Stated for the requests
\* beside which no other request takes a step.
C30_CollaboratorFailureNotSurfaced ==
    (ret.op = "chat" /\ ret.alone /\ Strip(ret.request) # <<>>) =>
       ret.status = 200

(***************************************************************************)
(* The claim about the feedback endpoint, checked under SpecFeedback,      *)
(* where the submissions of two sessions take their statements in turn.    *)
(***************************************************************************)
\* The step is the one in which a feedback submission returns.
FeedbackStep == ret'.op = "feedback"

\* The rows other than the one with the id.
OtherRecords(records, id) == {r \in BagToSet(records) : r.id # id}

\* C31 (as stated): a feedback value other than +1 or -1 is rejected as a
\* validation error (400) and an unknown analytics id as not-found (404),
\* neither changing any record; a valid submission sets the feedback of the
\* named record to the submitted value, replacing any earlier value, and
\* changes no other record: when it returns, the record has the value
\* submitted.
C31_FeedbackSubmission ==
    [][FeedbackStep =>
          LET id == ret'.analytics_id
              known == SelectById(analytics, id) # {}
              valid == ret'.feedback \in {1, -1}
          IN /\ ~valid => ret'.status = 400 /\ analytics' = analytics
             /\ (valid /\ ~known) =>
                   ret'.status = 404 /\ analytics' = analytics
             /\ (valid /\ known) =>
                   /\ ret'.status = 200
                   /\ BagCardinality(analytics') = BagCardinality(analytics)
                   /\ OtherRecords(analytics', id) = OtherRecords(analytics, id)
                   /\ \A r \in SelectById(analytics, id) :
                         SelectById(analytics', id) =
                            {[r EXCEPT !.feedback = ret'.feedback]}]_vars

(***************************************************************************)
(* Further claims about the cache operations, checked under Spec.          *)
(***************************************************************************)
\* The step is the return of a call of invalidate beside which no other
\* session took a step.
InvalidateStep == Returns /\ ret'.op = "invalidate" /\ ret'.alone

\* C32: invalidate(q) returns true exactly when an entry with q's digest
\* existed; afterwards no entry with that digest exists and every other
\* entry is unchanged; a second invalidate(q) right after it returns false.
C32_InvalidateContract ==
    [][InvalidateStep =>
          LET same == SelectByHash(table, generate_query_hash(ret'.q))
          IN /\ ret'.status \in {"true", "false"}
             /\ ret'.status = "true" <=> same # {}
             /\ SelectByHash(table', generate_query_hash(ret'.q)) = {}
             /\ table' = table \ same
             /\ ret'.after = <<"invalidate", ret'.q>> =>
                   ret'.status = "false"]_vars

\* invalidate of the other spelling of a stored query returned true and
\* left the entry of a different query in the cache.
C32_Witness ==
    /\ ret.op = "invalidate"
    /\ ret.alone
    /\ ret.status = "true"
    /\ ret.q = <<" ", "A">>
    /\ table # {}
    /\ \A r \in table : r.query_hash # generate_query_hash(ret.q)

\* C33: an entry whose most recent store could not obtain an embedding
\* has no stored embedding afterwards, whether the store inserted the
\* entry or overwrote an existing one, and so can be found by its digest
\* only.
C33_FailedEmbeddingLeavesNone ==
    [][(StoreStep /\ ret'.status = "ok" /\ ~ret'.embedded) =>
          \A r \in SelectByHash(table', generate_query_hash(ret'.q)) :
             r.query_embedding = NoEmbedding]_vars

(***************************************************************************)
(* The claim about pre-warm's pipeline, checked under SpecPipeline.        *)
(***************************************************************************)
\* C34: pre-warm answers a query the way the live request path would.  For
\* a query the router types live-source or both, and the same replies of
\* the collaborators, the entry pre-warm stores equals the entry a live
\* cache miss stores.
C34_PreWarmStoresWhatLiveStores ==
    (/\ val # NoCall
     /\ arg.router_result.query_type \in {"mcp", "hybrid"}
     /\ val.live.status = "ok"
     /\ val.warm.status = "ok") => val.warm.row = val.live.row

\* C35: the hitCount discipline.  In every reachable state every entry's
\* hit_count is >= 0, and from one state to the next the hit_count of an
\* entry stays equal, or increases by exactly 1 in a lookup that hit that
\* entry semantically, or becomes 0 in a store that overwrote that entry.
C35_HitCountDiscipline ==
    /\ [](\A r \in table : r.hit_count >= 0)
    /\ [][\A r \in table : \A o \in table' :
            o.id = r.id =>
               \/ o.hit_count = r.hit_count
               \/ /\ o.hit_count = r.hit_count + 1
                  /\ ret'.op = "lookup"
                  /\ ret'.via = "semantic"
                  /\ ret'.id = r.id
               \/ /\ o.hit_count = 0
                  /\ ret'.op = "store"
                  /\ ret'.via = "update"
                  /\ o.query_hash = generate_query_hash(ret'.q)]_vars

\* A lookup hit an entry semantically, which now has one hit, next to an
\* entry that has none.
C35_Witness ==
    /\ ret.op = "lookup"
    /\ ret.via = "semantic"
    /\ \E r \in table : r.id = ret.id /\ r.hit_count = 1
    /\ \E r \in table : r.id # ret.id /\ r.hit_count = 0

(***************************************************************************)
(* Further claims about the maintenance phases: improve and extend-TTL     *)
(* under SpecRatings, pre-warm under SpecMaint.                            *)
(***************************************************************************)
\* C37: the improve phase never removes a cached answer without replacing
\* it.  Every digest that had a cache entry before the phase has one after
\* it, also when the regeneration for a query fails after its entry was
\* invalidated.
C37_ImproveKeepsAnAnswer ==
    [][ImproveStep =>
          \A r \in ret'.before :
             SelectByHash(table', r.query_hash) # {}]_vars

\* C38: extend-TTL never shortens an entry's life.  For every cache entry
\* and every call of extend-TTL the entry's expires_at after the call is
\* greater than or equal to its expires_at before the call.
C38_ExtendNeverShortens ==
    [][ExtendStep =>
          \A r \in ret'.before : \A o \in table' :
             o.id = r.id => o.expires_at >= r.expires_at]_vars

\* C40: pre-warm's presence check is read-only.  A pre-warm that stored
\* nothing, because every query was below the minimum count or already
\* cached, leaves every cache entry as it was, its hit_count included.
C40_PreWarmCheckReadOnly ==
    [][(PreWarmStep /\ ret'.status = "ok" /\ ret'.warmed = 0) =>
          table' = ret'.before]_vars

(***************************************************************************)
(* Read-your-write through the cache, checked under Spec.  By C7 the       *)
(* unexpired entry with a digest holds what the last store for that digest *)
(* wrote, as long as no invalidate or expiry came after it.                *)
(***************************************************************************)
\* The lookup returned the answer the entry r holds, an empty citation
\* list as the empty list.
ReturnsAnswerOf(r, result) ==
    /\ result.status = "hit"
    /\ result.response = r.response
    /\ \/ r.sources = <<"NULL">> /\ result.sources = <<>>
       \/ r.sources = <<"json", result.sources>>

\* C39: read-your-write.  A lookup of q while the entry stored for q's
\* digest is in the table and unexpired returns exactly the response and
\* the sources stored for q, not the answer of another entry, whatever
\* other entries the cache holds and whether or not the embedding
\* succeeded at store time.
C39_ReadYourWrite ==
    [][LookupStep =>
          \A r \in table :
             (/\ r.query_hash = generate_query_hash(ret'.q)
              /\ r.expires_at > now) => ReturnsAnswerOf(r, ret')]_vars

\* C39 amended: the same, provided the lookup takes the exact-match path
\* (semantic matching disabled or the lookup's embedding call failed) or
\* the entry of q's digest is the one the similarity search finds: it has
\* a stored embedding that is strictly nearer to q's embedding than that of
\* every other unexpired entry at or above the similarity threshold.  Only
\* when q's entry has no stored embedding, or one that is not the nearest,
\* while another unexpired entry is at or above the threshold, may the
\* lookup return that entry's answer.
C39_ReadYourWriteOwnEntryNearest ==
    [][LookupStep =>
          \A r \in table :
             (/\ r.query_hash = generate_query_hash(ret'.q)
              /\ r.expires_at > now
              /\ \/ ~semantic_cache_enabled
                 \/ ~ret'.embedded
                 \/ \A o \in table :
                       (/\ o.id # r.id
                        /\ o.expires_at > now
                        /\ SimilarEntry(o, Embed(ret'.q)))
                       => /\ r.query_embedding # NoEmbedding
                          /\ Nearer(r.query_embedding, o.query_embedding,
                                    Embed(ret'.q)))
                => ReturnsAnswerOf(r, ret')]_vars

\* With semantic matching enabled and the query embedded, a lookup found
\* the query's own entry, stored without citations, as a semantic hit and
\* returned the empty list, while the cache held another unexpired entry
\* whose stored embedding is at or above the similarity threshold.
C39_Witness ==
    /\ semantic_cache_enabled
    /\ ret.alone
    /\ ret.op = "lookup" /\ ret.embedded
    /\ ret.status = "hit" /\ ret.via = "semantic"
    /\ ret.sources = <<>>
    /\ \E r, o \in table :
          /\ r.id = ret.id
          /\ r.query_hash = generate_query_hash(ret.q)
          /\ r.sources = <<"NULL">>
          /\ o.id # r.id
          /\ o.expires_at > now
          /\ SimilarEntry(o, Embed(ret.q))

(***************************************************************************)
(* The claim about a whole learning cycle, checked under SpecCycle.        *)
(***************************************************************************)
\* C36: an answer written during a cycle survives that cycle.  Every query
\* that the pre-warm phase counted as warmed, also one whose old, expired
\* entry was overwritten, still has its cache entry when the same cycle
\* completes.
C36_WarmedSurvivesCycle ==
    [][(JobReturns /\ ret'.op = "cycle" /\ ret'.status = "ok") =>
          \A k \in 1..Len(ret'.pre_log) :
             ret'.pre_log[k] = "warmed" =>
                SelectByHash(table',
                   generate_query_hash(ret'.popular[k].query)) # {}]_vars

====
